---- MODULE Spec2Model ----
(***************************************************************************)
(* A model of misc/python/materialize/mzcompose.py: the step registry,     *)
(* the workflow runner and its steps, the scoped service override and the  *)
(* readiness polling loops.                                                *)
(*                                                                         *)
(* Python strings whose characters matter (step names, process output)     *)
(* are sequences of one-character strings; service names and error tags    *)
(* are TLA+ strings.                                                       *)
(*                                                                         *)
(* The module holds one specification per subsystem:                       *)
(*   SpecReg       Steps.register / reg                                    *)
(*   SpecConstruct Composition.__init__                                    *)
(*   SpecScope     Workflow.with_services, Composition.run                 *)
(*   SpecPorts     Composition.find_host_ports                             *)
(*   SpecWorkflow  Workflow.run and the steps                              *)
(*   SpecWorkflowLive  the same, with the running thread taking its steps  *)
(*   SpecPoll      wait-for-tcp, wait_for_pg, wait_for_mysql               *)
(*   SpecSubst     _substitute_env_vars                                    *)
(*   SpecResolve   Composition.get_env / get_workflow                      *)
(*   SpecPython    PythonWorkflow.run                                      *)
(*   SpecStart     Workflow.start_and_wait_for_tcp                         *)
(*   SpecPresets   the service presets (SqlServer)                         *)
(*   SpecZippy     zippy's source_capable_clusters                         *)
(* Each specification leaves the other subsystems' variables at their      *)
(* initial values.                                                         *)
(***************************************************************************)
EXTENDS Integers, Sequences, FiniteSets, TLC

VARIABLES
    \* ---- Steps registry (class Steps, class Workflow's attributes)
    _steps,          \* Steps._steps: step name -> registered class
    workflowAttrs,   \* attributes of class Workflow: name -> what it is bound to
    class_name,      \* to_register.name of each step class
    registrars,      \* closures `reg` returned by Steps.register, not yet applied
    regResult,       \* outcome of the last registry operation
    \* ---- Composition.__init__
    loaded,          \* what the composition is constructed from
    constructed,     \* what the construction raised or built
    \* ---- Composition topology and with_services scopes
    compose,         \* Composition.compose: version, services (name -> config), volumes
    file,            \* Composition.file: the serialized topology
    scopes,          \* open with_services scopes, innermost first
    scopeResult,     \* outcome of the last with_services operation
    \* ---- Composition.find_host_ports
    found,           \* the last call: its arguments, the metadata read, the result
    \* ---- Workflow.run
    frames,          \* call stack of running workflows, innermost first
    containers,      \* the engine's containers: service -> sequence of exit codes
    wfStatus,        \* "idle" | "running" | "done" | "raised"
    wfError,         \* the error that left Workflow.run, if any
    lastStep,        \* what the last executed step observed and did
    \* ---- readiness polling
    poll,            \* the running poll loop: parameters, clock, `error`
    attempts,        \* the attempts of the running loop, oldest first
    \* ---- variable interpolation
    val,             \* the object passed to _substitute_env_vars
    env,             \* the environment it is resolved against
    ret,             \* what the last call returned or raised
    calls,           \* number of calls made so far
    \* ---- workflow resolution
    composition,     \* the Composition: its yaml_workflows
    resolved,        \* what each get_workflow call so far was given and returned
    \* ---- PythonWorkflow.run
    environ,         \* os.environ, the environment of the process
    pyframes,        \* the PythonWorkflow.run calls in progress, innermost first
    pyResult,        \* what the last operation on them did
    \* ---- Workflow.start_and_wait_for_tcp
    startup,         \* the running call: its list, its position, the calls it made
    \* ---- service presets
    sqlDefault,      \* the list object that is the default of SqlServer's `environment`
    sqlServers,      \* the SqlServer objects constructed so far, oldest first
    \* ---- zippy
    zippy            \* the capabilities and what source_capable_clusters returned

regVars == <<_steps, workflowAttrs, class_name, registrars, regResult>>
constructVars == <<loaded, constructed>>
scopeVars == <<compose, file, scopes, scopeResult>>
portsVars == <<found>>
wfVars == <<frames, containers, wfStatus, wfError, lastStep>>
pollVars == <<poll, attempts>>
substVars == <<val, env, ret, calls>>
resolveVars == <<composition, resolved>>
pythonVars == <<environ, pyframes, pyResult>>
startVars == <<startup>>
presetVars == <<sqlDefault, sqlServers>>
zippyVars == <<zippy>>
vars == <<constructVars, regVars, scopeVars, portsVars, wfVars, pollVars, substVars, resolveVars,
          pythonVars, startVars, presetVars, zippyVars>>

notReg == <<constructVars, scopeVars, portsVars, wfVars, pollVars, substVars, resolveVars,
    pythonVars,
    startVars, presetVars, zippyVars>>
notScope == <<constructVars, regVars, portsVars, wfVars, pollVars, substVars, resolveVars,
    pythonVars,
    startVars, presetVars, zippyVars>>
notWf == <<constructVars, regVars, scopeVars, portsVars, pollVars, substVars, resolveVars,
    pythonVars,
    startVars, presetVars, zippyVars>>
notPoll == <<constructVars, regVars, scopeVars, portsVars, wfVars, substVars, resolveVars,
    pythonVars,
    startVars, presetVars, zippyVars>>
notSubst == <<constructVars, regVars, scopeVars, portsVars, wfVars, pollVars, resolveVars,
    pythonVars,
    startVars, presetVars, zippyVars>>
notResolve == <<constructVars, regVars, scopeVars, portsVars, wfVars, pollVars, substVars,
    pythonVars,
    startVars, presetVars, zippyVars>>
notConstruct == <<regVars, scopeVars, portsVars, wfVars, pollVars, substVars, resolveVars,
    pythonVars,
    startVars, presetVars, zippyVars>>
notPorts == <<constructVars, regVars, scopeVars, wfVars, pollVars, substVars, resolveVars,
    pythonVars,
    startVars, presetVars, zippyVars>>
notPython == <<constructVars, regVars, scopeVars, portsVars, wfVars, pollVars, substVars,
    resolveVars,
    startVars, presetVars, zippyVars>>
notStart == <<constructVars, regVars, portsVars, wfVars, pollVars, substVars, resolveVars,
    pythonVars, presetVars, zippyVars>>
notPresets == <<constructVars, regVars, scopeVars, portsVars, wfVars, pollVars, substVars,
    resolveVars, pythonVars, startVars, zippyVars>>
notZippy == <<constructVars, regVars, scopeVars, portsVars, wfVars, pollVars, substVars,
    resolveVars, pythonVars, startVars, presetVars>>

None == "None"

(***************************************************************************)
(* Python string helpers.                                                  *)
(***************************************************************************)

\* str.replace(old, new) for one-character old and new.
Replace(s, old, new) ==
    [i \in 1..Len(s) |-> IF s[i] = old THEN new ELSE s[i]]

Whitespace == {" ", "\n", "\t"}

RECURSIVE LStrip(_)
LStrip(s) ==
    IF s # <<>> /\ Head(s) \in Whitespace THEN LStrip(Tail(s)) ELSE s

RECURSIVE RStrip(_)
RStrip(s) ==
    IF s # <<>> /\ s[Len(s)] \in Whitespace
    THEN RStrip(SubSeq(s, 1, Len(s) - 1))
    ELSE s

\* str.strip()
Strip(s) == RStrip(LStrip(s))

\* str.split(sep) for a one-character sep: always at least one field, so
\* "".split("\n") is [""].
RECURSIVE SplitFrom(_, _, _)
SplitFrom(s, sep, cur) ==
    IF s = <<>> THEN <<cur>>
    ELSE IF Head(s) = sep THEN <<cur>> \o SplitFrom(Tail(s), sep, <<>>)
    ELSE SplitFrom(Tail(s), sep, Append(cur, Head(s)))

Split(s, sep) == SplitFrom(s, sep, <<>>)

Digits == <<"0", "1", "2", "3", "4", "5", "6", "7", "8", "9">>

IsDigit(c) == \E d \in 1..10 : Digits[d] = c

DigitVal(c) == (CHOOSE d \in 1..10 : Digits[d] = c) - 1

\* str(n) for a natural number.
RECURSIVE Str(_)
Str(n) == IF n < 10 THEN <<Digits[n + 1]>> ELSE Append(Str(n \div 10), Digits[(n % 10) + 1])

\* int(s): defined on non-empty digit strings, a ValueError otherwise.
IntParses(s) == s # <<>> /\ \A i \in 1..Len(s) : IsDigit(s[i])

RECURSIVE Int_(_)
Int_(s) == IF s = <<>> THEN 0 ELSE 10 * Int_(SubSeq(s, 1, Len(s) - 1)) + DigitVal(s[Len(s)])

(***************************************************************************)
(* Errors.                                                                 *)
(***************************************************************************)

NoError == [kind |-> None, msg |-> ""]

UIError(msg) == [kind |-> "UIError", msg |-> msg]

KeyError(msg) == [kind |-> "KeyError", msg |-> msg]

CalledProcessError == [kind |-> "CalledProcessError", msg |-> ""]

ValueError == [kind |-> "ValueError", msg |-> ""]

(***************************************************************************)
(* Steps registry.                                                         *)
(***************************************************************************)

N_run == <<"r", "u", "n">>
N_run_dash_service == <<"r", "u", "n", "-", "s", "e", "r", "v", "i", "c", "e">>
N_run_service == <<"r", "u", "n", "_", "s", "e", "r", "v", "i", "c", "e">>
N_wait_dash_for_dash_tcp == <<"w", "a", "i", "t", "-", "f", "o", "r", "-", "t", "c", "p">>
N_wait_for_tcp == <<"w", "a", "i", "t", "_", "f", "o", "r", "_", "t", "c", "p">>
N_with_dash_services == <<"w", "i", "t", "h", "-", "s", "e", "r", "v", "i", "c", "e", "s">>
N_with_services == <<"w", "i", "t", "h", "_", "s", "e", "r", "v", "i", "c", "e", "s">>
N_run_compose == <<"r", "u", "n", "_", "c", "o", "m", "p", "o", "s", "e">>
N_run_sql == <<"r", "u", "n", "_", "s", "q", "l">>
N_start_and_wait_for_tcp ==
    <<"s", "t", "a", "r", "t", "_", "a", "n", "d", "_", "w", "a", "i", "t", "_",
      "f", "o", "r", "_", "t", "c", "p">>
N_overview == <<"o", "v", "e", "r", "v", "i", "e", "w">>

\* The step names registrations are drawn from.
StepNames == {N_run, N_run_dash_service, N_wait_dash_for_dash_tcp, N_with_dash_services}

\* The step classes registrations are drawn from.
StepClasses == {"StepA", "StepB"}

\* The methods class Workflow defines itself.
WorkflowCoreAttrs ==
    {N_run, N_with_services, N_run_compose, N_run_sql, N_start_and_wait_for_tcp,
     N_overview}

\* reg without the workaround for `run`.
FuncName_NoRename(name) == Replace(name, "-", "_")

\* func_name of Steps.register.reg
FuncName(name) ==
    LET func_name == Replace(name, "-", "_")
    IN  IF func_name = N_run THEN N_run_service ELSE func_name

\* hasattr(Workflow, func_name)
HasAttr(attrs, func_name) == func_name \in DOMAIN attrs

\* Steps.register without its membership check.
AlreadyRegistered_Never(registry, name) == FALSE

\* `name in cls._steps`, the check of Steps.register
AlreadyRegistered(registry, name) == name \in DOMAIN registry

\* Steps.named(name): the class registered under name, or UIError.
named(registry, name) ==
    IF name \in DOMAIN registry
    THEN [error |-> NoError, cls |-> registry[name]]
    ELSE [error |-> UIError("unknown step"), cls |-> None]

\* Bound on the closures `reg` held unapplied at one time.
MaxRegistrars == 2

Pending == LET S == {n \in StepNames : registrars[n] > 0}
               RECURSIVE Sum(_)
               Sum(T) == IF T = {} THEN 0
                         ELSE LET n == CHOOSE x \in T : TRUE
                              IN  registrars[n] + Sum(T \ {n})
           IN  Sum(S)

RegInit ==
    /\ _steps = <<>>
    /\ workflowAttrs = [a \in WorkflowCoreAttrs |-> "method"]
    /\ class_name = [c \in StepClasses |-> None]
    /\ registrars = [n \in StepNames |-> 0]
    /\ regResult = [op |-> "none", name |-> <<>>, cls |-> None, outcome |-> "none"]

\* Steps.register(name): refuses a name already in the registry, otherwise
\* returns the closure reg.
Register(name) ==
    /\ Pending < MaxRegistrars \/ AlreadyRegistered(_steps, name)
    /\ IF AlreadyRegistered(_steps, name)
       THEN /\ regResult' = [op |-> "register", name |-> name, cls |-> None,
                             outcome |-> "ValueError"]
            /\ UNCHANGED registrars
       ELSE /\ regResult' = [op |-> "register", name |-> name, cls |-> None,
                             outcome |-> "ok"]
            /\ registrars' = [registrars EXCEPT ![name] = @ + 1]
    /\ UNCHANGED <<_steps, workflowAttrs, class_name>>

\* reg(to_register): the closure returned by Steps.register(name).
Reg(name, to_register) ==
    /\ registrars[name] > 0
    /\ registrars' = [registrars EXCEPT ![name] = @ - 1]
    /\ _steps' = (name :> to_register) @@ _steps
    /\ class_name' = [class_name EXCEPT ![to_register] = name]
    /\ IF ~HasAttr(workflowAttrs, FuncName(name))
       THEN /\ workflowAttrs' = (FuncName(name) :> to_register) @@ workflowAttrs
            /\ regResult' = [op |-> "reg", name |-> name, cls |-> to_register,
                             outcome |-> "ok"]
       ELSE /\ UNCHANGED workflowAttrs
            /\ regResult' = [op |-> "reg", name |-> name, cls |-> to_register,
                             outcome |-> "UIError"]

RegisterStep ==
    /\ \E name \in StepNames : Register(name)
    /\ UNCHANGED notReg

RegStep ==
    /\ \E name \in StepNames, c \in StepClasses : Reg(name, c)
    /\ UNCHANGED notReg

(***************************************************************************)
(* Composition topology and Workflow.with_services.                        *)
(***************************************************************************)

\* The services of the composition, in the order yaml.dump writes their keys.
ServiceOrder == <<"echo", "kafka">>

Services == {ServiceOrder[i] : i \in 1..Len(ServiceOrder)}

\* Service names a caller may pass; "ghost" is in no topology.
ServiceNames == Services \cup {"ghost"}

\* Service configurations a caller of with_services passes: mappings with
\* the keys of PythonServiceConfig that are set.  An image reference is the
\* sequence of its parts.
Configs ==
    {[image |-> <<"busybox">>, command |-> "sleep 2"],
     [mzbuild |-> "materialized", command |-> "sleep 2"]}

\* PythonService(name, config)
PythonServices == [name : ServiceNames, config : Configs]

\* Bounds on the list passed to with_services and on the nesting of scopes.
MaxServices == 2
MaxDepth == 2

\* The lists passed to with_services: each service named once, in any order.
ServiceLists ==
    {l \in UNION {[1..n -> PythonServices] : n \in 0..MaxServices} :
        \A i, j \in 1..Len(l) : l[i].name = l[j].name => i = j}

\* d[k] = v and del d[k] on a mapping.
SetKey(d, k, v) == [x \in DOMAIN d \cup {k} |-> IF x = k THEN v ELSE d[x]]

DelKey(d, k) == [x \in DOMAIN d \ {k} |-> d[x]]

\* The compose mapping as Composition.__init__ leaves it.
ComposeOf(services) ==
    [version |-> "3.7", services |-> services,
     volumes |-> {"mzdata", "tmp", "secrets"}]

\* The keys yaml.dump sorts: service names and configuration keys.
SortedNames == <<"echo", "ghost", "kafka">>

SortedKeys == <<"command", "image", "mzbuild", "ports">>

\* The members of a sorted sequence that are keys of the mapping d.
KeysIn(sorted, d) ==
    LET RECURSIVE From(_)
        From(i) ==
            IF i > Len(sorted) THEN <<>>
            ELSE (IF sorted[i] \in DOMAIN d THEN <<sorted[i]>> ELSE <<>>) \o From(i + 1)
    IN  From(1)

\* The lines yaml.dump writes for one service: one per key it has.
DumpService(name, config) ==
    LET keys == KeysIn(SortedKeys, config)
    IN  [i \in 1..Len(keys) |-> <<"services", name, keys[i], config[keys[i]]>>]

\* yaml.dump(self.compose): one line per leaf, mapping keys sorted.
YamlDump(c) ==
    LET names == KeysIn(SortedNames, c.services)
        RECURSIVE Dump(_)
        Dump(i) ==
            IF i > Len(names) THEN <<>>
            ELSE DumpService(names[i], c.services[names[i]]) \o Dump(i + 1)
    IN  Dump(1) \o << <<"version", c.version>> >> \o << <<"volumes", c.volumes>> >>

\* Composition._write_compose: seek(0), truncate, dump, flush.
WriteCompose(c) == YamlDump(c)

(***************************************************************************)
(* Composition.__init__: from the loaded services to the topology.         *)
(***************************************************************************)

\* repo.images: the build targets of the repository.
RepoImages == {"materialized"}

\* Values of MZBUILD_TAG / MZBUILD_<image>_TAG in the process environment.
Tags == {None, "v1"}

\* Image.docker_name(tag) and ResolvedImage.spec(): a concrete image
\* reference, tagged as asked or with the fingerprint of the build.
DockerName(image_name, tag) == <<"materialize", image_name, tag>>

ImageSpec(image_name) == <<"materialize", image_name, "mzbuild-fingerprint">>

\* A port as str(port) reads it: the characters of "80" and of "80:80".
ContainerPort == <<"8", "0">>

HostPort(port) == port \o <<":">> \o port

\* Bound on the length of a service's port list.
MaxPorts == 2

PortLists ==
    UNION {[1..n -> {ContainerPort, HostPort(ContainerPort)}] : n \in 0..MaxPorts}

\* The service definitions a composition is loaded from (mzcompose.yml and
\* the services of mzworkflows.py).
LoadedConfigs ==
    LET images == {[image |-> <<"busybox">>, command |-> "sleep 1"]}
                  \cup {[mzbuild |-> b, command |-> "sleep 1"] :
                            b \in RepoImages \cup {"nosuch"}}
    IN  images \cup {SetKey(c, "ports", ports) : c \in images, ports \in PortLists}

\* The loop over config["ports"]: the index of the first port holding a
\* colon, 0 if there is none.
DisallowedPort(ports) ==
    IF \E i \in 1..Len(ports) : ":" \in {ports[i][j] : j \in 1..Len(ports[i])}
    THEN CHOOSE i \in 1..Len(ports) :
            /\ ":" \in {ports[i][j] : j \in 1..Len(ports[i])}
            /\ \A k \in 1..(i - 1) : ":" \notin {ports[k][j] : j \in 1..Len(ports[k])}
    ELSE 0

\* The port list with preserve_ports: a port is bound to the same host port.
PreservedPorts_AsWritten(ports) == ports

PreservedPorts(ports) == [i \in 1..Len(ports) |-> HostPort(ports[i])]

\* The first loop of __init__ over one service: the image override, then the
\* ports.  The result is the error raised, or the configuration as left.
LoadService(config, preserve_ports, tag) ==
    LET unknown == "mzbuild" \in DOMAIN config /\ config.mzbuild \notin RepoImages
        tagged == IF "mzbuild" \in DOMAIN config /\ tag # None
                  THEN DelKey(SetKey(config, "image", DockerName(config.mzbuild, tag)),
                              "mzbuild")
                  ELSE config
        ports == IF "ports" \in DOMAIN config THEN config.ports ELSE <<>>
    IN  IF unknown THEN [error |-> UIError("mzcompose: unknown image")]
        ELSE IF DisallowedPort(ports) # 0
        THEN [error |-> UIError("programming error: disallowed host port in service {name!r}")]
        ELSE [error |-> NoError,
              config |-> SetKey(tagged, "ports",
                                IF preserve_ports THEN PreservedPorts(ports) ELSE ports)]

\* The second loop: a build reference left becomes the image resolved for it.
ResolveService_KeepBuild(config) == config

ResolveService(config) ==
    IF "mzbuild" \in DOMAIN config
    THEN DelKey(SetKey(config, "image", ImageSpec(config.mzbuild)), "mzbuild")
    ELSE config

\* Composition.__init__ on the loaded services, in their order: the first
\* error raised, or self.compose and the file written from it.
Construct(services, preserve_ports, tag) ==
    LET configs == [s \in Services |-> LoadService(services[s], preserve_ports, tag)]
        bad == {i \in 1..Len(ServiceOrder) : configs[ServiceOrder[i]].error # NoError}
    IN  IF bad # {}
        THEN [error |-> configs[ServiceOrder[CHOOSE i \in bad : \A j \in bad : i <= j]].error]
        ELSE LET c == ComposeOf([s \in Services |-> ResolveService(configs[s].config)])
             IN  [error |-> NoError, compose |-> c, file |-> WriteCompose(c)]

\* The arguments of the constructions the model performs.
ConstructInit ==
    /\ loaded \in [services : [Services -> LoadedConfigs],
                    preserve_ports : BOOLEAN, tag : Tags]
    /\ constructed = [done |-> FALSE]

FixedConstruct ==
    /\ loaded = [services |-> [s \in Services |->
                                [image |-> <<"busybox">>, command |-> "sleep 1"]],
                 preserve_ports |-> FALSE, tag |-> None]
    /\ constructed = [done |-> FALSE]

\* Composition(repo, name, preserve_ports)
Composition ==
    /\ ~constructed.done
    /\ constructed' = [done |-> TRUE,
                       result |-> Construct(loaded.services, loaded.preserve_ports,
                                            loaded.tag)]
    /\ UNCHANGED loaded
    /\ UNCHANGED notConstruct

(***************************************************************************)
(* Workflow.with_services.                                                 *)
(***************************************************************************)

\* copy.deepcopy(self.composition.compose)
DeepCopy(c) == c

\* with_services without its check that a listed service exists.
FirstUnknown_Never(c, services) == 0

\* Index of the first listed service that is not in the topology, 0 if none.
FirstUnknown(c, services) ==
    IF \E i \in 1..Len(services) : services[i].name \notin DOMAIN c.services
    THEN CHOOSE i \in 1..Len(services) :
            /\ services[i].name \notin DOMAIN c.services
            /\ \A j \in 1..(i - 1) : services[j].name \in DOMAIN c.services
    ELSE 0

\* The loop of with_services over services[1..n]: each one replaces the
\* stored definition wholesale, later entries winning.
RECURSIVE ReplaceServices(_, _, _)
ReplaceServices(c, services, n) ==
    IF n = 0 THEN c
    ELSE LET prev == ReplaceServices(c, services, n - 1)
         IN  [prev EXCEPT !.services =
                 SetKey(prev.services, services[n].name, services[n].config)]

\* with_services restoring only when the block returns (no finally clause).
RestoredCompose_NoFinally(old_compose, current, outcome) ==
    IF outcome = "raised" THEN current ELSE old_compose

\* with_services whose exit rewrites the file but assigns nothing back.
RestoredCompose_Keep(old_compose, current, outcome) == current

\* What the finally clause of with_services assigns to composition.compose.
RestoredCompose(old_compose, current, outcome) == old_compose

\* The compositions the scopes are opened on: constructed from services
\* that name an image or a build target and list no port.
ScopeLoaded ==
    {l \in [Services -> {c \in LoadedConfigs :
                            /\ "ports" \notin DOMAIN c
                            /\ "mzbuild" \in DOMAIN c => c.mzbuild \in RepoImages}] :
        "image" \in DOMAIN l["kafka"]}

ScopeInit ==
    /\ \E services \in ScopeLoaded :
          /\ compose = Construct(services, FALSE, None).compose
          /\ file = Construct(services, FALSE, None).file
    /\ scopes = <<>>
    /\ scopeResult = [op |-> "none", outcome |-> "none", pre |-> compose,
                      inner |-> compose]

\* with_services up to its yield: remember the old composition, replace the
\* listed services, write the file. An unknown service raises out of the
\* loop, before the file is written and before the try block is entered.
WithServicesEnter(services) ==
    /\ Len(scopes) < MaxDepth
    /\ LET old_compose == DeepCopy(compose)
           bad == FirstUnknown(compose, services)
       IN  IF bad # 0
           THEN /\ compose' = ReplaceServices(compose, services, bad - 1)
                /\ scopeResult' = [op |-> "enter", outcome |-> "RuntimeError",
                                   pre |-> compose, inner |-> compose',
                                   listed |-> {services[i].name : i \in 1..Len(services)}]
                /\ UNCHANGED <<file, scopes>>
           ELSE /\ compose' = ReplaceServices(compose, services, Len(services))
                /\ file' = WriteCompose(compose')
                /\ scopes' = <<[old_compose |-> old_compose, pre |-> compose]>> \o scopes
                /\ scopeResult' = [op |-> "enter", outcome |-> "ok",
                                   pre |-> compose, inner |-> compose',
                                   listed |-> {services[i].name : i \in 1..Len(services)}]

\* The with block ends, by return or by an exception: the finally clause
\* restores the old composition and writes the file.
WithServicesExit(outcome) ==
    /\ scopes # <<>>
    /\ compose' = RestoredCompose(Head(scopes).old_compose, compose, outcome)
    /\ file' = WriteCompose(compose')
    /\ scopes' = Tail(scopes)
    /\ scopeResult' = [op |-> "exit", outcome |-> outcome,
                       pre |-> Head(scopes).pre, inner |-> compose]

\* Composition.run, whatever the command: docker-compose is handed
\* self.file as it is and reads the topology from it.
ComposeRun ==
    /\ scopeResult' = [op |-> "run", outcome |-> "ok", pre |-> compose,
                       inner |-> compose, read |-> file]
    /\ UNCHANGED <<compose, file, scopes>>

EnterScope ==
    /\ \E services \in ServiceLists : WithServicesEnter(services)
    /\ UNCHANGED notScope

ExitScope ==
    /\ \E outcome \in {"returned", "raised"} : WithServicesExit(outcome)
    /\ UNCHANGED notScope

InvokeEngine ==
    /\ ComposeRun
    /\ UNCHANGED notScope

(***************************************************************************)
(* The container engine, as far as the steps observe it.                   *)
(***************************************************************************)

\* Exit statuses of engine commands and of containers.
ExitCodes == {0, 1}

\* Bound on the containers the engine holds for one service.
MaxContainers == 2

\* The id of the k-th container of a service.
ContainerId(k) == <<"c">> \o Str(k)

\* stdout of `docker-compose ps -q <service>`: one container id per line.
RECURSIVE PsOutput(_)
PsOutput(n) ==
    IF n = 0 THEN <<>> ELSE PsOutput(n - 1) \o ContainerId(n) \o <<"\n">>

\* Composition.run: subprocess.run(check=check); a CalledProcessError
\* becomes a UIError.
CompositionRun(exit, check) ==
    IF check /\ exit # 0
    THEN UIError("running docker-compose failed")
    ELSE NoError

\* run_compose passing check=False.
RunCompose_NoCheck(exit) == CompositionRun(exit, FALSE)

\* Workflow.run_compose: Composition.run with check left at its default.
RunCompose(exit) == CompositionRun(exit, TRUE)

(***************************************************************************)
(* Composition.find_host_ports and inspect_service_containers.             *)
(*                                                                         *)
(* The metadata of a container (one line of `docker inspect`) is a record  *)
(* of its compose labels and of NetworkSettings.Ports, which maps a        *)
(* container port to null or to the list of its host bindings.             *)
(***************************************************************************)

\* Composition.name, the project the containers are labelled with.
ProjectName == "comp"

\* Config.Labels of a container: null, or the compose labels.
NoLabels == [none |-> TRUE]

Labels(service, project) == [none |-> FALSE, service |-> service, project |-> project]

\* An entry of NetworkSettings.Ports: null, or a list of bindings.
NullEntry == [none |-> TRUE]

Bindings(list) == [none |-> FALSE, list |-> list]

\* `port_entry or []`
OrEmpty(port_entry) == IF port_entry.none THEN <<>> ELSE port_entry.list

\* Host addresses docker binds a port on.
IPv4Any == <<"0", ".", "0", ".", "0", ".", "0">>

IPv6Any == <<":", ":">>

\* A test that takes every address for an IPv4 address.
IsIPv4Address_Always(ip) == TRUE

\* isinstance(ipaddress.ip_address(ip), ipaddress.IPv4Address): a dotted
\* quad of digits; an address with a colon is an IPv6 address.
IsIPv4Address(ip) ==
    /\ \A i \in 1..Len(ip) : ip[i] = "." \/ IsDigit(ip[i])
    /\ Cardinality({i \in 1..Len(ip) : ip[i] = "."}) = 3

\* The keys of NetworkSettings.Ports, in the order .items() gives them.
PortNames == <<"80/tcp", "81/tcp">>

\* The containers whose labels name the service and this composition, in
\* the order docker inspect lists them.
inspect_service_containers(service, infos) ==
    SelectSeq(infos, LAMBDA info :
        /\ ~info.Labels.none
        /\ info.Labels.service = service
        /\ info.Labels.project = ProjectName)

\* The bindings the three nested loops of find_host_ports visit, in order.
RECURSIVE VisitedBindings(_, _, _)
VisitedBindings(infos, i, k) ==
    IF i > Len(infos) THEN <<>>
    ELSE IF k > Len(PortNames) THEN VisitedBindings(infos, i + 1, 1)
    ELSE OrEmpty(infos[i].Ports[PortNames[k]]) \o VisitedBindings(infos, i, k + 1)

\* The list `ports` after the first n visited bindings.
RECURSIVE CollectPorts(_, _)
CollectPorts(bindings, n) ==
    IF n = 0 THEN <<>>
    ELSE LET ports == CollectPorts(bindings, n - 1)
             p == bindings[n]
         IN  IF p.HostPort \notin {ports[j] : j \in 1..Len(ports)}
                /\ IsIPv4Address(p.HostIp)
             THEN Append(ports, p.HostPort)
             ELSE ports

find_host_ports(c, service, infos) ==
    IF service \notin DOMAIN c.services
    THEN [error |-> UIError("unknown service"), ports |-> <<>>]
    ELSE LET bindings == VisitedBindings(inspect_service_containers(service, infos), 1, 1)
         IN  [error |-> NoError, ports |-> CollectPorts(bindings, Len(bindings))]

\* ---- the metadata the model inspects
Binding(ip, port) == [HostIp |-> ip, HostPort |-> port]

PortEntries ==
    {NullEntry, Bindings(<<>>),
     Bindings(<<Binding(IPv4Any, "32768")>>),
     Bindings(<<Binding(IPv6Any, "32768")>>),
     Bindings(<<Binding(IPv4Any, "32768"), Binding(IPv6Any, "32768")>>),
     Bindings(<<Binding(IPv6Any, "32769"), Binding(IPv4Any, "32768")>>),
     Bindings(<<Binding(IPv6Any, "32769")>>)}

ContainerInfos ==
    [Labels : {NoLabels, Labels("echo", ProjectName), Labels("kafka", ProjectName),
               Labels("echo", "other")},
     Ports : [{PortNames[k] : k \in 1..Len(PortNames)} -> PortEntries]]

\* Bound on the containers docker inspect reports.
MaxInspected == 1

InspectOutputs == UNION {[1..n -> ContainerInfos] : n \in 0..MaxInspected}

FixedPorts == found = [op |-> "none"]

FindHostPorts ==
    /\ found.op = "none"
    /\ \E service \in ServiceNames, infos \in InspectOutputs :
          found' = [op |-> "find_host_ports", service |-> service, infos |-> infos,
                    result |-> find_host_ports(compose, service, infos)]
    /\ UNCHANGED notPorts

(***************************************************************************)
(* Readiness polling: WaitForTcpStep.run, wait_for_pg, wait_for_mysql.     *)
(***************************************************************************)

\* Bounds: the timeout of a wait, the seconds one loop iteration can take,
\* the dependencies of a wait-for-tcp.
MaxTimeout == 3
MaxAttemptSecs == 2
MaxDeps == 2

\* ui.timeout_loop(timeout_secs): another iteration is started as long as
\* the timeout has not elapsed; an iteration takes at least the loop's
\* one-second interval.
TimeoutLoopContinues(elapsed, timeout_secs) == elapsed < timeout_secs

AttemptSecs == 1..MaxAttemptSecs

\* Hosts probed over TCP and the WaitDependency records naming them.
PrimaryHost == "materialized"
PrimaryPort == 6875
DepHosts == {"kafka", "zookeeper"}
WaitDependencies == {[host |-> "kafka", port |-> 9092], [host |-> "zookeeper", port |-> 2181]}
DependencyLists == UNION {[1..n -> WaitDependencies] : n \in 0..MaxDeps}

\* Row sets a verification query returns.
RowSets == {<<>>, << <<1>> >>, << <<2>> >>}

\* `expected` of wait_for_pg: the sentinel "any" or literal rows.
ExpectedAny == [any |-> TRUE, rows |-> <<>>]
ExpectedRows(rows) == [any |-> FALSE, rows |-> rows]
ExpectedValues == {ExpectedAny, ExpectedRows(<< <<1>> >>), ExpectedRows(<<>>)}

\* What one attempt against the database meets: the connection fails, the
\* query fails, the statement has no row set (rowcount -1, fetchall raises),
\* or rows come back.
PgAttempts ==
    {[tag |-> t, rows |-> <<>>] : t \in {"connect_error", "query_error", "no_rowset"}}
    \cup {[tag |-> "rows", rows |-> r] : r \in RowSets}

\* For wait_for_mysql: fetchone() gives the first row, None for no row.
MysqlAttempts ==
    {[tag |-> t, rows |-> <<>>] : t \in {"connect_error", "query_error"}}
    \cup {[tag |-> "rows", rows |-> r] : r \in RowSets}

PollError(msg, host, port, cause) ==
    [kind |-> "UIError", msg |-> msg, host |-> host, port |-> port, cause |-> cause]

NoPollError == [kind |-> None, msg |-> "", host |-> None, port |-> 0, cause |-> None]

MsgDependencyDown == "Dependency is down "
MsgUnableToConnect == "Unable to connect to "
MsgNeverGotPg == "never got correct result for "
MsgNeverGotMysql == "Never got correct result for "

\* WaitForTcpStep.run without its loop over the dependencies.
FirstDown_None(dependencies, up) == 0

\* The first dependency, in list order, whose probe fails; 0 if none does.
FirstDown(dependencies, up) ==
    IF \E i \in 1..Len(dependencies) : ~up[dependencies[i].host]
    THEN CHOOSE i \in 1..Len(dependencies) :
            /\ ~up[dependencies[i].host]
            /\ \A j \in 1..(i - 1) : up[dependencies[j].host]
    ELSE 0

\* WaitForTcpStep.run probing the dependencies before the primary target.
WaitForTcpIteration_DependenciesFirst(dependencies, up) ==
    LET d == FirstDown(dependencies, up)
    IN  IF d # 0
        THEN [status |-> "raised",
              raised |-> PollError(MsgDependencyDown, dependencies[d].host,
                                   dependencies[d].port, None)]
        ELSE IF up[PrimaryHost]
        THEN [status |-> "success", raised |-> NoPollError]
        ELSE [status |-> "polling", raised |-> NoPollError]

\* One iteration of the loop of WaitForTcpStep.run: the primary probe, then,
\* if it failed, the probes of the dependencies.
WaitForTcpIteration(dependencies, up) ==
    IF up[PrimaryHost]
    THEN [status |-> "success", raised |-> NoPollError]
    ELSE LET d == FirstDown(dependencies, up)
         IN  IF d # 0
             THEN [status |-> "raised",
                   raised |-> PollError(MsgDependencyDown, dependencies[d].host,
                                        dependencies[d].port, None)]
             ELSE [status |-> "polling", raised |-> NoPollError]

\* wait_for_pg taking any fetched rows for the expected ones.
WaitForPgAttempt_AnyRows(att, expected, error) ==
    IF att.tag \in {"connect_error", "query_error"}
    THEN [status |-> "polling", error |-> att.tag]
    ELSE [status |-> "success", error |-> error]

\* wait_for_pg letting the exception of an attempt leave the loop.
WaitForPgAttempt_NoRetry(att, expected, error) ==
    IF att.tag \in {"connect_error", "query_error"}
    THEN [status |-> "raised", error |-> att.tag]
    ELSE [status |-> "success", error |-> error]

\* One iteration of the loop of wait_for_pg: the status of the wait after it
\* and the value of the local `error`.
WaitForPgAttempt(att, expected, error) ==
    IF att.tag \in {"connect_error", "query_error"}
    THEN [status |-> "polling", error |-> att.tag]
    ELSE IF expected.any /\ att.tag = "no_rowset"
    THEN [status |-> "success", error |-> error]
    ELSE IF att.tag = "no_rowset"
    THEN [status |-> "polling", error |-> "fetch_error"]
    ELSE IF expected.any \/ att.rows = expected.rows
    THEN [status |-> "success", error |-> error]
    ELSE [status |-> "polling", error |-> error]

\* cur.fetchone()
FetchOne(rows) == IF rows = <<>> THEN <<>> ELSE rows[1]

\* One iteration of the loop of wait_for_mysql.
WaitForMysqlAttempt(att, error) ==
    IF att.tag \in {"connect_error", "query_error"}
    THEN [status |-> "polling", error |-> att.tag]
    ELSE IF FetchOne(att.rows) = <<1>>
    THEN [status |-> "success", error |-> error]
    ELSE [status |-> "polling", error |-> error]

\* The raise that follows the loop when the timeout elapsed.
TimeoutError(kind, error) ==
    IF kind = "tcp" THEN PollError(MsgUnableToConnect, PrimaryHost, PrimaryPort, None)
    ELSE IF kind = "pg" THEN PollError(MsgNeverGotPg, PrimaryHost, PrimaryPort, error)
    ELSE PollError(MsgNeverGotMysql, PrimaryHost, PrimaryPort, error)

Idle ==
    [kind |-> None, timeout_secs |-> 0, elapsed |-> 0, status |-> "idle",
     dependencies |-> <<>>, expected |-> ExpectedAny, error |-> None,
     raised |-> NoPollError]

PollInit ==
    /\ poll = Idle
    /\ attempts = <<>>

\* A wait is called: `error = None`, the loop is about to start.
PollStart(kind, timeout_secs, dependencies, expected) ==
    /\ poll.status # "polling"
    /\ poll' = [Idle EXCEPT !.kind = kind, !.timeout_secs = timeout_secs,
                            !.status = "polling", !.dependencies = dependencies,
                            !.expected = expected]
    /\ attempts' = <<>>

Polling(kind) ==
    /\ poll.status = "polling"
    /\ poll.kind = kind
    /\ TimeoutLoopContinues(poll.elapsed, poll.timeout_secs)

\* What an attempt leaves in the log: whether it met the success predicate,
\* the cause of its failure, and what it observed (hosts down, rows fetched,
\* and how far the attempt got: its tag).
Attempt(ok, cause, down, rows, tag) ==
    [ok |-> ok, cause |-> cause, down |-> down, rows |-> rows, tag |-> tag]

TcpIteration(up, secs) ==
    /\ Polling("tcp")
    /\ LET r == WaitForTcpIteration(poll.dependencies, up)
           down == {h \in DOMAIN up : ~up[h]}
       IN  /\ poll' = [poll EXCEPT !.status = r.status, !.raised = r.raised,
                                   !.elapsed = @ + secs]
           /\ attempts' = Append(attempts,
                                 Attempt(up[PrimaryHost],
                                         IF up[PrimaryHost] THEN None ELSE "primary_down",
                                         down, <<>>, "probe"))

PgCause(att, expected) ==
    IF att.tag \in {"connect_error", "query_error"} THEN att.tag
    ELSE IF att.tag = "no_rowset" THEN (IF expected.any THEN None ELSE "fetch_error")
    ELSE IF expected.any \/ att.rows = expected.rows THEN None
    ELSE "mismatch"

PgIteration(att, secs) ==
    /\ Polling("pg")
    /\ LET r == WaitForPgAttempt(att, poll.expected, poll.error)
           cause == PgCause(att, poll.expected)
       IN  /\ poll' = [poll EXCEPT !.status = r.status, !.error = r.error,
                                   !.elapsed = @ + secs]
           /\ attempts' = Append(attempts, Attempt(cause = None, cause, {}, att.rows, att.tag))

MysqlCause(att) ==
    IF att.tag \in {"connect_error", "query_error"} THEN att.tag
    ELSE IF FetchOne(att.rows) = <<1>> THEN None
    ELSE "mismatch"

MysqlIteration(att, secs) ==
    /\ Polling("mysql")
    /\ LET r == WaitForMysqlAttempt(att, poll.error)
           cause == MysqlCause(att)
       IN  /\ poll' = [poll EXCEPT !.status = r.status, !.error = r.error,
                                   !.elapsed = @ + secs]
           /\ attempts' = Append(attempts, Attempt(cause = None, cause, {}, att.rows, att.tag))

\* The loop ends without a success: the code after it raises.
PollTimeout ==
    /\ poll.status = "polling"
    /\ ~TimeoutLoopContinues(poll.elapsed, poll.timeout_secs)
    /\ poll' = [poll EXCEPT !.status = "raised",
                            !.raised = TimeoutError(poll.kind, poll.error)]
    /\ UNCHANGED attempts

StartPoll ==
    \E kind \in {"tcp", "pg", "mysql"}, t \in 0..MaxTimeout,
       deps \in DependencyLists, expected \in ExpectedValues :
        /\ kind # "tcp" => deps = <<>>
        /\ kind # "pg" => expected = ExpectedAny
        /\ PollStart(kind, t, deps, expected)
        /\ UNCHANGED notPoll

ProbeTcp ==
    \E up \in [{PrimaryHost} \cup DepHosts -> BOOLEAN], secs \in AttemptSecs :
        TcpIteration(up, secs) /\ UNCHANGED notPoll

AttemptPg ==
    /\ \E att \in PgAttempts, secs \in AttemptSecs : PgIteration(att, secs)
    /\ UNCHANGED notPoll

AttemptMysql ==
    /\ \E att \in MysqlAttempts, secs \in AttemptSecs : MysqlIteration(att, secs)
    /\ UNCHANGED notPoll

TimeOut == PollTimeout /\ UNCHANGED notPoll

(***************************************************************************)
(* Variable interpolation: _substitute_env_vars.                           *)
(*                                                                         *)
(* Strings are sequences of characters.  A configuration value is a record *)
(* [ty, s, n, kids]: a string (s), a mapping or a sequence (kids, each a   *)
(* key and a value, in order), or another scalar (n).  An environment is a *)
(* function from variable names to strings; a name outside its domain is   *)
(* absent (env.get gives None).                                            *)
(***************************************************************************)

\* First index from i on where s ends or holds a character of `stop`:
\* the end of a greedy run of a negated character class.
RECURSIVE RunEnd(_, _, _)
RunEnd(s, i, stop) ==
    IF i > Len(s) \/ s[i] \in stop THEN i ELSE RunEnd(s, i + 1, stop)

At(s, i, c) == i <= Len(s) /\ s[i] = c

\* The result of trying a pattern at position i.  `default` is the optional
\* group of the env pattern, the leading ":-" included.
NoMatch ==
    [ok |-> FALSE, end |-> 0, group0 |-> <<>>, hasVar |-> FALSE, var |-> <<>>,
     hasDefault |-> FALSE, default |-> <<>>, alt_var |-> <<>>]

\* \$\{ (?P<var>[^:}]+) (?P<default>:-[^}]+)? \}  tried at position i.  The
\* classes exclude the character that must follow them, so the greedy runs
\* are the only way to match.
_BASHLIKE_ENV_VAR_PATTERN(s, i) ==
    IF ~(At(s, i, "$") /\ At(s, i + 1, "{")) THEN NoMatch
    ELSE LET j == RunEnd(s, i + 2, {":", "}"})
             k == RunEnd(s, j + 2, {"}"})
         IN  IF j = i + 2 THEN NoMatch
             ELSE IF At(s, j, "}")
             THEN [NoMatch EXCEPT !.ok = TRUE, !.end = j + 1,
                                  !.group0 = SubSeq(s, i, j),
                                  !.hasVar = TRUE, !.var = SubSeq(s, i + 2, j - 1)]
             ELSE IF At(s, j, ":") /\ At(s, j + 1, "-") /\ k > j + 2 /\ At(s, k, "}")
             THEN [NoMatch EXCEPT !.ok = TRUE, !.end = k + 1,
                                  !.group0 = SubSeq(s, i, k),
                                  !.hasVar = TRUE, !.var = SubSeq(s, i + 2, j - 1),
                                  !.hasDefault = TRUE, !.default = SubSeq(s, j, k - 1)]
             ELSE NoMatch

\* \$\{ (?P<var>[^:}]+) :\+ (?P<alt_var>[^}]+) \}  tried at position i.
_BASHLIKE_ALT_VAR_PATTERN(s, i) ==
    IF ~(At(s, i, "$") /\ At(s, i + 1, "{")) THEN NoMatch
    ELSE LET j == RunEnd(s, i + 2, {":", "}"})
             k == RunEnd(s, j + 2, {"}"})
         IN  IF j > i + 2 /\ At(s, j, ":") /\ At(s, j + 1, "+") /\ k > j + 2 /\ At(s, k, "}")
             THEN [NoMatch EXCEPT !.ok = TRUE, !.end = k + 1,
                                  !.group0 = SubSeq(s, i, k),
                                  !.hasVar = TRUE, !.var = SubSeq(s, i + 2, j - 1),
                                  !.alt_var = SubSeq(s, j + 2, k - 1)]
             ELSE NoMatch

\* What a replacement function gives: the text, or a raised UIError.
Text(s) == [raised |-> FALSE, s |-> s]
Unparsable == [raised |-> TRUE, s |-> <<>>]

_subst(e, match) ==
    IF ~match.hasVar THEN Unparsable
    ELSE IF match.var \notin DOMAIN e /\ ~match.hasDefault THEN Text(match.group0)
    ELSE IF match.var \notin DOMAIN e
    THEN Text(SubSeq(match.default, 3, Len(match.default)))
    ELSE Text(e[match.var])

\* _alt_subst taking an empty value for an absent variable.
_alt_subst_EmptyIsAbsent(e, match) ==
    IF ~match.hasVar THEN Unparsable
    ELSE IF match.var \notin DOMAIN e \/ e[match.var] = <<>> THEN Text(<<>>)
    ELSE Text(match.alt_var)

_alt_subst(e, match) ==
    IF ~match.hasVar THEN Unparsable
    ELSE IF match.var \notin DOMAIN e THEN Text(<<>>)
    ELSE Text(match.alt_var)

\* Two texts one after the other, unless producing one of them raised.
Join(a, b) == IF a.raised \/ b.raised THEN Unparsable ELSE Text(a.s \o b.s)

\* Pattern.sub(repl, s) from position i on: the leftmost match is replaced
\* and the scan resumes after it; the replacement is not scanned.
RECURSIVE PatternSub(_, _, _, _)
SubAt(pattern, e, s, i, match) ==
    IF match.ok
    THEN Join(IF pattern = "env" THEN _subst(e, match) ELSE _alt_subst(e, match),
              PatternSub(pattern, e, s, match.end))
    ELSE Join(Text(<<s[i]>>), PatternSub(pattern, e, s, i + 1))

PatternSub(pattern, e, s, i) ==
    IF i > Len(s) THEN Text(<<>>)
    ELSE SubAt(pattern, e, s, i,
               IF pattern = "env" THEN _BASHLIKE_ENV_VAR_PATTERN(s, i)
               ELSE _BASHLIKE_ALT_VAR_PATTERN(s, i))

\* The second pass, over what the first pass returned.
AltPass(first, e) ==
    IF first.raised THEN Unparsable ELSE PatternSub("alt", e, first.s, 1)

\* The string branch of _substitute_env_vars: the env pattern over the whole
\* string, then the alt pattern over the result.
SubstituteString(s, e) == AltPass(PatternSub("env", e, s, 1), e)

\* Configuration values.
StrVal(s) == [ty |-> "str", s |-> s, n |-> 0, kids |-> <<>>]
IntVal(n) == [ty |-> "int", s |-> <<>>, n |-> n, kids |-> <<>>]
Kid(key, v) == [key |-> key, val |-> v]
Container(ty, kids) == [ty |-> ty, s |-> <<>>, n |-> 0, kids |-> kids]
NoneVal == [ty |-> "none", s |-> <<>>, n |-> 0, kids |-> <<>>]

Min(S) == CHOOSE m \in S : \A x \in S : m <= x

\* A string leaf after the two passes (r): the new string, or the raise.
Leaf(v, r) == [raised |-> r.raised, val |-> IF r.raised THEN v ELSE StrVal(r.s)]

\* A mapping or sequence after its elements were resolved in order (sub):
\* the elements up to the first one that raised are written back.
Assemble(v, sub) ==
    LET bad == {i \in DOMAIN v.kids : sub[i].raised}
        last == IF bad = {} THEN Len(v.kids) ELSE Min(bad)
    IN  [raised |-> bad # {},
         val |-> [v EXCEPT !.kids =
                     [i \in DOMAIN v.kids |->
                         IF i <= last THEN Kid(v.kids[i].key, sub[i].val)
                         ELSE v.kids[i]]]]

\* _substitute_env_vars without its final `return val` for other scalars.
RECURSIVE _substitute_env_vars_DropScalar(_, _)
_substitute_env_vars_DropScalar(v, e) ==
    IF v.ty = "str" THEN Leaf(v, SubstituteString(v.s, e))
    ELSE IF v.ty \in {"dict", "list"}
    THEN Assemble(v, [i \in DOMAIN v.kids |->
                         _substitute_env_vars_DropScalar(v.kids[i].val, e)])
    ELSE [raised |-> FALSE, val |-> NoneVal]

\* _substitute_env_vars resolving only the first element of a sequence.
RECURSIVE _substitute_env_vars_FirstOnly(_, _)
_substitute_env_vars_FirstOnly(v, e) ==
    IF v.ty = "str" THEN Leaf(v, SubstituteString(v.s, e))
    ELSE IF v.ty \in {"dict", "list"}
    THEN Assemble(v, [i \in DOMAIN v.kids |->
                         IF v.ty = "list" /\ i > 1
                         THEN [raised |-> FALSE, val |-> v.kids[i].val]
                         ELSE _substitute_env_vars_FirstOnly(v.kids[i].val, e)])
    ELSE [raised |-> FALSE, val |-> v]

\* _substitute_env_vars(val, env): what it returns, or that it raised and
\* what it had written into the (mutable) argument by then.
RECURSIVE _substitute_env_vars(_, _)
_substitute_env_vars(v, e) ==
    IF v.ty = "str" THEN Leaf(v, SubstituteString(v.s, e))
    ELSE IF v.ty \in {"dict", "list"}
    THEN Assemble(v, [i \in DOMAIN v.kids |-> _substitute_env_vars(v.kids[i].val, e)])
    ELSE [raised |-> FALSE, val |-> v]

\* ---- the values and environments the model resolves

MaxPieces == 2
MaxKids == 2
MaxCalls == 2

X == <<"X">>
Y == <<"Y">>
Names == {X, Y}
Lit == <<"a">>

\* The three reference forms, and a reference left open.
Ref(v) == <<"$", "{">> \o v \o <<"}">>
RefDefault(v, d) == <<"$", "{">> \o v \o <<":", "-">> \o d \o <<"}">>
RefAlt(v, a) == <<"$", "{">> \o v \o <<":", "+">> \o a \o <<"}">>
Open(v) == <<"$", "{">> \o v

\* Environments: each variable absent, empty, "1", or a text that itself
\* reads as a reference.
EnvValues == {<<>>, <<"1">>, RefAlt(Y, Lit)}
Envs == UNION {[D -> EnvValues] : D \in SUBSET Names}

\* Default texts: plain, or the beginning of another reference.
DefaultTexts ==
    {Lit, Open(Y), Open(Y) \o <<":", "+">> \o Lit, Open(Y) \o <<":", "-">> \o Lit}

Pieces ==
    {Lit, <<"}">>}
    \cup {Ref(v) : v \in Names}
    \cup {RefDefault(v, d) : v \in Names, d \in DefaultTexts}
    \cup {RefAlt(v, Lit) : v \in Names}

RECURSIVE Concat(_)
Concat(ps) == IF ps = <<>> THEN <<>> ELSE Head(ps) \o Concat(Tail(ps))

Templates == {Concat(ps) : ps \in UNION {[1..n -> Pieces] : n \in 0..MaxPieces}}

KeyNames == << <<"a">>, <<"b">>, <<"c">>, <<"d">> >>

Leaves == {StrVal(Lit), StrVal(Ref(X)), StrVal(RefDefault(Y, Lit)), IntVal(7)}

Keyed(ty, vs) ==
    Container(ty, [i \in DOMAIN vs |-> Kid(IF ty = "dict" THEN KeyNames[i] ELSE <<>>, vs[i])])

Level1 ==
    {Keyed(ty, vs) : ty \in {"dict", "list"},
                     vs \in UNION {[1..n -> Leaves] : n \in 0..MaxKids}}

Level2 ==
    {Keyed(ty, <<c>>) : ty \in {"dict", "list"}, c \in Level1}
    \cup {Keyed(ty, <<c, l>>) : ty \in {"dict", "list"}, c \in Level1, l \in Leaves}

Values == {StrVal(t) : t \in Templates} \cup Leaves \cup Level1 \cup Level2

IsContainer(v) == v.ty \in {"dict", "list"}

NoReturn == [raised |-> FALSE, val |-> NoneVal]

FixedSubst ==
    /\ val = NoneVal
    /\ env = <<>>
    /\ ret = NoReturn
    /\ calls = 0

SubstInit ==
    /\ val \in Values
    /\ env \in Envs
    /\ ret = NoReturn
    /\ calls = 0

\* A call _substitute_env_vars(arg, env) ends with r: a mapping or sequence
\* passed in is the object the call writes into.
Returns(r) ==
    /\ ~ret.raised
    /\ calls < MaxCalls
    /\ ret' = r
    /\ calls' = calls + 1
    /\ val' = IF IsContainer(val) THEN r.val ELSE val
    /\ UNCHANGED env

Call(arg) == Returns(_substitute_env_vars(arg, env))

\* The first call, on the value.
Substitute == calls = 0 /\ Call(val) /\ UNCHANGED notSubst

\* A further call, on what the previous one returned.
SubstituteAgain == calls > 0 /\ Call(ret.val) /\ UNCHANGED notSubst

(***************************************************************************)
(* Workflow resolution: Composition.get_env and Composition.get_workflow.  *)
(*                                                                         *)
(* composition.yaml_workflows maps a workflow name to the mapping loaded   *)
(* from the mzworkflows section: an optional "env" and the "steps".  It is *)
(* an object of the Composition, so a call that writes into it is seen by  *)
(* the calls that follow.                                                  *)
(***************************************************************************)
K_env == <<"e", "n", "v">>
K_steps == <<"s", "t", "e", "p", "s">>
K_step == <<"s", "t", "e", "p">>
K_service == <<"s", "e", "r", "v", "i", "c", "e">>

\* dict.get(key): None when the key is absent.
Get(d, key) ==
    LET I == {i \in DOMAIN d.kids : d.kids[i].key = key}
    IN  IF I = {} THEN NoneVal ELSE d.kids[Min(I)].val

Keys(d) == {d.kids[i].key : i \in DOMAIN d.kids}

\* str(v) of an env value.
PyStr(v) == IF v.ty = "str" THEN v.s ELSE Str(v.n)

\* self.yaml_workflows[workflow_name].get("env"), {} for an unknown name.
RawEnv(yaml_workflows_, workflow_name) ==
    IF workflow_name \in DOMAIN yaml_workflows_
    THEN Get(yaml_workflows_[workflow_name], K_env)
    ELSE Container("dict", <<>>)

\* {k: str(v) for k, v in raw_env.items()}: a new mapping.
Stringified(raw_env) ==
    [raw_env EXCEPT !.kids =
        [i \in DOMAIN raw_env.kids |->
            Kid(raw_env.kids[i].key, StrVal(PyStr(raw_env.kids[i].val)))]]

\* The overlay with the parent's values winning.
Overlay_ParentWins(parent_env, child_env) ==
    [k \in DOMAIN parent_env \cup Keys(child_env) |->
        IF k \in DOMAIN parent_env THEN parent_env[k] ELSE Get(child_env, k).s]

\* env = dict(**parent_env); env.update(**child_env)
Overlay(parent_env, child_env) ==
    [k \in DOMAIN parent_env \cup Keys(child_env) |->
        IF k \in Keys(child_env) THEN Get(child_env, k).s ELSE parent_env[k]]

EnvOf(raw_env, parent_env) ==
    IF raw_env.ty \notin {"dict", "none"}
    THEN [raised |-> "UIError", env |-> <<>>]
    ELSE [raised |-> None,
          env |-> Overlay(parent_env,
                          _substitute_env_vars(Stringified(raw_env), parent_env).val)]

\* Composition.get_env(workflow_name, parent_env): the values of the declared
\* env are turned into strings in a new mapping, resolved against the parent
\* environment and laid over a copy of it.
get_env(yaml_workflows_, workflow_name, parent_env) ==
    EnvOf(RawEnv(yaml_workflows_, workflow_name), parent_env)

\* A built step: the step name popped, the other entries its arguments.
BuiltStep(raw_step) ==
    [step |-> Get(raw_step, K_step).s,
     args |-> {raw_step.kids[i] : i \in {j \in DOMAIN raw_step.kids :
                                            raw_step.kids[j].key # K_step}}]

BuiltSteps(steps) == [i \in DOMAIN steps.kids |-> BuiltStep(steps.kids[i].val)]

\* get_workflow once the stored mapping was resolved against workflow_env:
\* yaml_workflow is the stored mapping itself, written in place.
Build(yaml_workflows_, workflow_name, workflow_env, yaml_workflow) ==
    [raised |-> None, env |-> workflow_env,
     steps |-> BuiltSteps(Get(yaml_workflow, K_steps)),
     yaml_workflows |-> [yaml_workflows_ EXCEPT ![workflow_name] = yaml_workflow]]

Failed(kind, yaml_workflows_) ==
    [raised |-> kind, env |-> <<>>, steps |-> <<>>, yaml_workflows |-> yaml_workflows_]

WithEnv(yaml_workflows_, workflow_name, workflow_env) ==
    IF workflow_env.raised # None
    THEN Failed(workflow_env.raised, yaml_workflows_)
    ELSE Build(yaml_workflows_, workflow_name, workflow_env.env,
               _substitute_env_vars(yaml_workflows_[workflow_name], workflow_env.env).val)

\* Composition.get_workflow(workflow_name, parent_env): what it raises or
\* returns (env and built steps), and yaml_workflows as the call leaves it.
get_workflow(yaml_workflows_, workflow_name, parent_env) ==
    IF workflow_name \notin DOMAIN yaml_workflows_
    THEN Failed("KeyError", yaml_workflows_)
    ELSE WithEnv(yaml_workflows_, workflow_name,
                 get_env(yaml_workflows_, workflow_name, parent_env))

\* ---- the declarations and parent environments the model resolves

MaxResolves == 2

WorkflowNames == {"wf"}

\* Declared env: none, a sequence (the wrong type), or a mapping of some of
\* the names to leaves.
EnvDecls ==
    {NoneVal, Keyed("list", <<StrVal(Lit)>>)}
    \cup {Container("dict", [i \in DOMAIN ks |-> Kid(ks[i], vs[i])]) :
              ks \in {<<>>, <<X>>, <<X, Y>>}, vs \in [1..2 -> Leaves]}

StepDecls ==
    {Container("list",
        <<Kid(<<>>, Container("dict", <<Kid(K_step, StrVal(<<"r", "u", "n">>)),
                                        Kid(K_service, StrVal(t))>>))>>) :
        t \in {Ref(X), RefDefault(Y, Lit)}}

WorkflowDecl(e, steps) ==
    Container("dict", IF e = NoneVal THEN <<Kid(K_steps, steps)>>
                      ELSE <<Kid(K_env, e), Kid(K_steps, steps)>>)

\* Parent environments: each variable absent or "1".
ParentEnvs == UNION {[D -> {<<"1">>}] : D \in SUBSET Names}

FixedResolve ==
    /\ composition = [yaml_workflows |-> <<>>]
    /\ resolved = <<>>

ResolveInit ==
    /\ \E e \in EnvDecls, steps \in StepDecls :
          composition = [yaml_workflows |-> [n \in WorkflowNames |-> WorkflowDecl(e, steps)]]
    /\ resolved = <<>>

\* What a call leaves in the log: its arguments, the declarations it found,
\* and what it raised or returned.
Resolution(op, name, parent_env, r) ==
    [op |-> op, name |-> name, parent_env |-> parent_env,
     found |-> composition.yaml_workflows,
     raised |-> r.raised, env |-> r.env, steps |-> r.steps]

\* A call ends with r.
Resolved(op, name, parent_env, r) ==
    /\ Len(resolved) < MaxResolves
    /\ resolved' = Append(resolved, Resolution(op, name, parent_env, r))
    /\ composition' = [composition EXCEPT !.yaml_workflows = r.yaml_workflows]

GetEnvCall(name, parent_env, r) ==
    Resolved("get_env", name, parent_env,
             [raised |-> r.raised, env |-> r.env, steps |-> <<>>,
              yaml_workflows |-> composition.yaml_workflows])

GetEnv ==
    \E name \in WorkflowNames, parent_env \in ParentEnvs :
        /\ GetEnvCall(name, parent_env, get_env(composition.yaml_workflows, name, parent_env))
        /\ UNCHANGED notResolve

GetWorkflow ==
    \E name \in WorkflowNames, parent_env \in ParentEnvs :
        /\ Resolved("get_workflow", name, parent_env,
                    get_workflow(composition.yaml_workflows, name, parent_env))
        /\ UNCHANGED notResolve

(***************************************************************************)
(* Workflows and steps.                                                    *)
(***************************************************************************)

\* A step as constructed: its registered name and the arguments the steps
\* modelled here take (-1 and None where a step takes none).
StepInst(step, service, code, workflow) ==
    [step |-> step, service |-> service, expected_return_code |-> code,
     workflow |-> workflow]

\* Bound on the seconds an ensure-stays-up step watches its container.
MaxSeconds == 2

\* EnsureStaysUpStep(container, seconds)
EnsureStaysUpInst(container, seconds) ==
    SetKey(StepInst("ensure-stays-up", container, -1, None), "seconds", seconds)

\* WaitForTcpStep(host, port, dependencies): each dependency is the mapping
\* the workflow file gives, with the keys it gives.
WaitForTcpInst(host, dependencies) ==
    SetKey(StepInst("wait-for-tcp", host, -1, None), "dependencies", dependencies)

\* The step instances workflows are built from.
StepInstances ==
    {StepInst("start-services", "echo", -1, None),
     StepInst("wait", "echo", 0, None),
     StepInst("run", "echo", -1, None),
     StepInst("sleep", None, -1, None),
     StepInst("workflow", None, -1, "child"),
     StepInst("workflow", None, -1, "missing"),
     StepInst("workflow", None, -1, "probe"),
     StepInst("drop-kafka-topics", "kafka", -1, None),
     EnsureStaysUpInst("echo", MaxSeconds)}

\* Bound on the steps of the workflow handed to Workflow.run.
MaxSteps == 2

StepLists == UNION {[1..n -> StepInstances] : n \in 0..MaxSteps}

\* A composition whose workflow `child` invokes itself.
yaml_workflows_Cyclic ==
    [child |-> <<StepInst("workflow", None, -1, "child")>>,
     probe |-> <<StepInst("sleep", None, -1, None)>>]

\* Composition.yaml_workflows: the workflows a `workflow` step can name.
yaml_workflows ==
    [child |-> <<StepInst("start-services", "echo", -1, None),
                 StepInst("wait", "echo", 1, None)>>,
     probe |-> <<WaitForTcpInst(PrimaryHost, <<[host |-> "kafka", port |-> 9092],
                                               [port |-> 2181]>>)>>]

\* The mzworkflows mapping of the same workflows as far as get_env reads
\* it: child declares env {X: 2}.  Its values hold no reference, so the
\* resolution that get_workflow writes back leaves the declaration as it is.
yaml_declarations ==
    [child |-> Container("dict",
                   <<Kid(K_env, Container("dict", <<Kid(X, IntVal(2))>>))>>),
     probe |-> Container("dict", <<>>)]

\* The env get_workflow gives a workflow of the composition: get_env on its
\* declaration, tabulated for the environments a top-level run starts with.
ChildEnvs ==
    [name \in DOMAIN yaml_declarations |->
        [parent_env \in ParentEnvs |-> get_env(yaml_declarations, name, parent_env).env]]

ChildEnv(name, parent_env) ==
    IF parent_env \in ParentEnvs
    THEN ChildEnvs[name][parent_env]
    ELSE get_env(yaml_declarations, name, parent_env).env

\* Composition.get_workflow: KeyError for a name that is not defined.
GetWorkflowError(name) ==
    IF name \notin DOMAIN yaml_workflows
    THEN KeyError("No workflow called")
    ELSE NoError

\* The except clause of WorkflowWorkflowStep.run.
WorkflowStepCatch(err) ==
    IF err.kind = "KeyError" THEN UIError("unknown workflow") ELSE err

\* An error leaving the innermost workflow passes the `workflow` step of
\* each enclosing workflow.
RECURSIVE Propagate(_, _)
Propagate(err, outer) ==
    IF outer = 0 THEN err ELSE Propagate(WorkflowStepCatch(err), outer - 1)

\* Workflow.run catching a step's error and going on to the next step.
StepStatus_Swallow(err) == "running"

\* Workflow.run: `for step in self._steps: step.run(self)`, nothing caught.
StepStatus(err) == IF err = NoError THEN "running" ELSE "raised"

NoStep ==
    [step |-> None, service |-> None, expected |-> -1, psOut |-> <<>>,
     nContainers |-> 0, exit |-> 0, code |-> -1, err |-> NoError]

WfInit ==
    /\ frames = <<>>
    /\ containers = [s \in Services |-> <<>>]
    /\ wfStatus = "idle"
    /\ wfError = NoError
    /\ lastStep = NoStep

Top == Head(frames)

CurrentStep == Top.steps[Top.pc]

AtStep(name) ==
    /\ wfStatus = "running"
    /\ frames # <<>>
    /\ Top.pc <= Len(Top.steps)
    /\ CurrentStep.step = name

MarkRaised(frame) ==
    [frame EXCEPT !.executed[Len(frame.executed)].raised = TRUE]

\* The step at Top.pc ends with err (NoError: it returned).
StepEnds(err) ==
    LET entry == [index |-> Top.pc, raised |-> err # NoError]
        status == StepStatus(err)
    IN  /\ wfStatus' = status
        /\ IF status = "running"
           THEN /\ frames' = <<[Top EXCEPT !.pc = @ + 1,
                                           !.executed = Append(@, entry)]>>
                              \o Tail(frames)
                /\ wfError' = NoError
           ELSE /\ frames' = <<[Top EXCEPT !.executed = Append(@, entry)]>>
                              \o [i \in 1..(Len(frames) - 1) |-> MarkRaised(frames[i + 1])]
                /\ wfError' = Propagate(err, Len(frames) - 1)

Observed(psOut, n, exit, code, err) ==
    [step |-> CurrentStep.step, service |-> CurrentStep.service,
     expected |-> CurrentStep.expected_return_code,
     psOut |-> psOut, nContainers |-> n, exit |-> exit, code |-> code, err |-> err]

\* A caller runs a workflow: Workflow(name, steps, env, composition).run(args)
StartRun(steps, workflow_env) ==
    /\ wfStatus = "idle"
    /\ frames' = <<[name |-> "main", steps |-> steps, pc |-> 1, executed |-> <<>>,
                    env |-> workflow_env]>>
    /\ wfStatus' = "running"
    /\ wfError' = NoError
    /\ lastStep' = NoStep
    /\ UNCHANGED containers

\* The diagnostic of the handler of StartServicesStep.run, the services
\* joined with ", ".
MsgDidntComeUp ==
    [echo |-> "services didn't come up cleanly: echo",
     kafka |-> "services didn't come up cleanly: kafka"]

\* The except clause of StartServicesStep.run.
StartServicesCatch(err, services) ==
    IF err.kind = "CalledProcessError" THEN UIError(MsgDidntComeUp[services]) ELSE err

\* StartServicesStep.run: `up -d` creates the service's container unless it
\* has one; what run_compose raises passes the except clause.
StartServicesStep(exit, code) ==
    /\ AtStep("start-services")
    /\ LET svc == CurrentStep.service
           err == StartServicesCatch(RunCompose(exit), svc)
       IN  /\ containers' =
                 IF exit = 0 /\ containers[svc] = <<>>
                 THEN [containers EXCEPT ![svc] = <<code>>]
                 ELSE containers
           /\ lastStep' = Observed(<<>>, Len(containers'[svc]), exit, -1, err)
           /\ StepEnds(err)

\* RunStep.run: `run` leaves a one-off container that exited with the
\* command's status.
RunStep(exit) ==
    /\ AtStep("run")
    /\ LET svc == CurrentStep.service
           err == RunCompose(exit)
       IN  /\ containers' =
                 IF Len(containers[svc]) < MaxContainers
                 THEN [containers EXCEPT ![svc] = Append(@, exit)]
                 ELSE containers
           /\ lastStep' = Observed(<<>>, Len(containers'[svc]), exit, -1, err)
           /\ StepEnds(err)

\* Sleep.run
SleepStep ==
    /\ AtStep("sleep")
    /\ lastStep' = Observed(<<>>, 0, 0, -1, NoError)
    /\ UNCHANGED containers
    /\ StepEnds(NoError)

\* The messages of WaitStep.run's errors, up to their first placeholder.
MsgSingleContainer == "Expected to get a single container for "
MsgNoContainers == "No containers returned for service "
MsgSingleExitCode == "Expected single exit code for "
MsgExitCode == "Expected exit code "

\* `docker wait <id>` through spawn.runv: the exit code of the container on
\* a line of its own. For an id the engine does not know the command fails:
\* runv either raises CalledProcessError or hands back the empty stdout.
DockerWaitKnows(conts, container_id) ==
    \E k \in 1..Len(conts) : ContainerId(k) = container_id

DockerWaitStdout(conts, container_id) ==
    IF DockerWaitKnows(conts, container_id)
    THEN Str(conts[CHOOSE k \in 1..Len(conts) : ContainerId(k) = container_id])
         \o <<"\n">>
    ELSE <<>>

\* WaitStep.run without the comparison with expected_return_code.
WaitStepRun_IgnoreCode(stdout, conts, expected_return_code, runvRaises) ==
    LET container_ids == Split(Strip(stdout), "\n")
    IN  IF Len(container_ids) > 1
        THEN [err |-> UIError(MsgSingleContainer), code |-> -1]
        ELSE [err |-> NoError, code |-> -1]

\* WaitStep.run after `ps -q`: the error it raises (NoError: it returns) and
\* the return code it read (-1: none).
WaitStepRun(stdout, conts, expected_return_code, runvRaises) ==
    LET container_ids == Split(Strip(stdout), "\n")
    IN  IF Len(container_ids) > 1
        THEN [err |-> UIError(MsgSingleContainer), code |-> -1]
        ELSE IF container_ids = <<>>
        THEN [err |-> UIError(MsgNoContainers), code |-> -1]
        ELSE
        LET container_id == container_ids[1]
            out == DockerWaitStdout(conts, container_id)
            fields == Split(Strip(out), "\n")
        IN  IF ~DockerWaitKnows(conts, container_id) /\ runvRaises
            THEN [err |-> CalledProcessError, code |-> -1]
            ELSE IF \E i \in 1..Len(fields) : ~IntParses(fields[i])
            THEN [err |-> ValueError, code |-> -1]
            ELSE IF Len(fields) # 1
            THEN [err |-> UIError(MsgSingleExitCode), code |-> -1]
            ELSE IF Int_(fields[1]) # expected_return_code
            THEN [err |-> UIError(MsgExitCode), code |-> Int_(fields[1])]
            ELSE [err |-> NoError, code |-> Int_(fields[1])]

\* WaitStep.run
WaitStep(psExit, runvRaises) ==
    /\ AtStep("wait")
    /\ LET svc == CurrentStep.service
           psErr == RunCompose(psExit)
           stdout == PsOutput(Len(containers[svc]))
           r == IF psErr # NoError
                THEN [err |-> psErr, code |-> -1]
                ELSE WaitStepRun(stdout, containers[svc],
                                 CurrentStep.expected_return_code, runvRaises)
       IN  /\ lastStep' = Observed(stdout, Len(containers[svc]), psExit, r.code, r.err)
           /\ UNCHANGED containers
           /\ StepEnds(r.err)

\* spawn.runv(args, capture_output=True): subprocess.run with check=True.
SpawnRunv(exit) == IF exit # 0 THEN CalledProcessError ELSE NoError

\* DropKafkaTopicsStep.run letting the error of the command through.
DropKafkaTopicsRun_Reraise(exit) == [err |-> SpawnRunv(exit), logged |-> FALSE]

\* DropKafkaTopicsStep.run: the error it raises and whether the except
\* clause logged the failure of `kafka-topics --delete`.
DropKafkaTopicsRun(exit) ==
    LET raised == SpawnRunv(exit)
    IN  IF raised.kind = "CalledProcessError"
        THEN [err |-> NoError, logged |-> TRUE]
        ELSE [err |-> raised, logged |-> FALSE]

DropKafkaTopicsStep(exit) ==
    /\ AtStep("drop-kafka-topics")
    /\ LET r == DropKafkaTopicsRun(exit)
       IN  /\ lastStep' = SetKey(Observed(<<>>, 0, exit, -1, r.err), "logged", r.logged)
           /\ UNCHANGED containers
           /\ StepEnds(r.err)

\* What a poll of ensure-stays-up finds with `ps -q -a` and docker inspect:
\* a running container of the service, a stopped one, none, or the engine
\* command failing.
PollFindings == {"up", "exited", "gone", "failed"}

MsgStoppedRunning == "container stopped running!"

\* The loop of EnsureStaysUpStep.run over range(seconds, 0, -1), seen[i]
\* being what the i-th poll finds: the polls made, one second of sleep
\* before each, and the error raised.  The list of containers includes the
\* stopped ones, so only a poll that finds none raises.
EnsureStaysUpRun(seconds, seen, logsExit) ==
    LET stops == {i \in 1..seconds : seen[i] \in {"gone", "failed"}}
        first == IF stops = {} THEN 0 ELSE Min(stops)
    IN  [polls |-> IF first = 0 THEN seconds ELSE first,
         err |-> IF first = 0 THEN NoError
                 ELSE IF seen[first] = "failed" THEN RunCompose(1)
                 ELSE IF logsExit # 0 THEN RunCompose(logsExit)
                 ELSE UIError(MsgStoppedRunning)]

EnsureStaysUpStep(seen, logsExit) ==
    /\ AtStep("ensure-stays-up")
    /\ LET r == EnsureStaysUpRun(CurrentStep.seconds, seen, logsExit)
       IN  /\ lastStep' = SetKey(SetKey(SetKey(Observed(<<>>, 0, 0, -1, r.err),
                                  "seconds", CurrentStep.seconds), "seen", seen),
                                  "polls", r.polls)
           /\ UNCHANGED containers
           /\ StepEnds(r.err)

\* Bound on the iterations ui.timeout_loop grants a wait-for-tcp step.
MaxIterations == 2

\* The hosts a wait-for-tcp step of the model probes, and what the probes of
\* the iterations of one run find: ups[k][h] is whether h is reachable in
\* iteration k.
TcpHosts == {PrimaryHost, "kafka"}

TcpUps == UNION {[1..n -> [TcpHosts -> BOOLEAN]] : n \in 0..MaxIterations}

\* The loop over self._dependencies in one iteration, from dependency i on:
\* `host, port = dep["host"], dep["port"]`, then the probe.
RECURSIVE ProbeDependencies(_, _, _)
ProbeDependencies(dependencies, up, i) ==
    IF i > Len(dependencies) THEN NoError
    ELSE IF "host" \notin DOMAIN dependencies[i] THEN KeyError("host")
    ELSE IF "port" \notin DOMAIN dependencies[i] THEN KeyError("port")
    ELSE IF ~up[dependencies[i].host] THEN UIError(MsgDependencyDown)
    ELSE ProbeDependencies(dependencies, up, i + 1)

\* WaitForTcpStep.run from iteration k on: the error it raises, NoError
\* when the primary probe succeeds.
RECURSIVE WaitForTcpRun(_, _, _, _)
WaitForTcpRun(host, dependencies, ups, k) ==
    IF k > Len(ups) THEN UIError(MsgUnableToConnect)
    ELSE IF ups[k][host] THEN NoError
    ELSE LET raised == ProbeDependencies(dependencies, ups[k], 1)
         IN  IF raised # NoError THEN raised
             ELSE WaitForTcpRun(host, dependencies, ups, k + 1)

WaitForTcpStep(ups) ==
    /\ AtStep("wait-for-tcp")
    /\ LET err == WaitForTcpRun(CurrentStep.service, CurrentStep.dependencies, ups, 1)
       IN  /\ lastStep' = SetKey(Observed(<<>>, 0, 0, -1, err), "iterations", Len(ups))
           /\ UNCHANGED containers
           /\ StepEnds(err)

\* Bound on the depth of nested workflow invocations.
MaxFrames == 2

\* WorkflowWorkflowStep.run, up to the start of the child's run: the child
\* is resolved and its first step is next; an unknown name is reported.
WorkflowWorkflowStep ==
    /\ AtStep("workflow")
    /\ Len(frames) < MaxFrames
    /\ LET name == CurrentStep.workflow
           err == WorkflowStepCatch(GetWorkflowError(name))
       IN  /\ lastStep' = Observed(<<>>, 0, 0, -1, err)
           /\ UNCHANGED containers
           /\ IF err = NoError
              THEN /\ frames' =
                        <<[name |-> name, steps |-> yaml_workflows[name], pc |-> 1,
                           executed |-> <<>>,
                           env |-> ChildEnv(name, Top.env)]>>
                        \o <<[Top EXCEPT !.executed =
                                  Append(@, [index |-> Top.pc, raised |-> FALSE])]>>
                        \o Tail(frames)
                   /\ UNCHANGED <<wfStatus, wfError>>
              ELSE StepEnds(err)

\* Workflow.run returns: the loop over the steps is exhausted. A child's
\* return ends the caller's `workflow` step.
WorkflowReturn ==
    /\ wfStatus = "running"
    /\ frames # <<>>
    /\ Top.pc > Len(Top.steps)
    /\ IF Len(frames) = 1
       THEN /\ wfStatus' = "done"
            /\ UNCHANGED frames
       ELSE /\ frames' = <<[frames[2] EXCEPT !.pc = @ + 1]>> \o Tail(Tail(frames))
            /\ UNCHANGED wfStatus
    /\ UNCHANGED <<containers, wfError, lastStep>>

Run ==
    /\ \E steps \in StepLists, workflow_env \in ParentEnvs : StartRun(steps, workflow_env)
    /\ UNCHANGED notWf

StartServices ==
    /\ \E exit \in ExitCodes, code \in ExitCodes : StartServicesStep(exit, code)
    /\ UNCHANGED notWf

RunService ==
    /\ \E exit \in ExitCodes : RunStep(exit)
    /\ UNCHANGED notWf

Wait ==
    /\ \E psExit \in ExitCodes, runvRaises \in BOOLEAN : WaitStep(psExit, runvRaises)
    /\ UNCHANGED notWf

Sleep == SleepStep /\ UNCHANGED notWf

DropKafkaTopics ==
    /\ \E exit \in ExitCodes : DropKafkaTopicsStep(exit)
    /\ UNCHANGED notWf

EnsureStaysUp ==
    /\ \E seen \in [1..MaxSeconds -> PollFindings], logsExit \in ExitCodes :
          EnsureStaysUpStep(seen, logsExit)
    /\ UNCHANGED notWf

WaitForTcp ==
    /\ \E ups \in TcpUps : WaitForTcpStep(ups)
    /\ UNCHANGED notWf

RunWorkflow == WorkflowWorkflowStep /\ UNCHANGED notWf

Return == WorkflowReturn /\ UNCHANGED notWf

(***************************************************************************)
(* PythonWorkflow.run.                                                     *)
(*                                                                         *)
(* A workflow written as a Python function runs with os.environ set to its *)
(* env.  The function may assign to os.environ and may run another Python  *)
(* workflow before it returns or raises.                                   *)
(***************************************************************************)

\* Bound on the PythonWorkflow.run calls in progress at once.
MaxNesting == 2

\* The args a workflow is run with: none, or an option.
ArgLists == {<<>>, <<"--bogus">>}

\* WorkflowArgumentParser(self).parse_args(args): the empty parser accepts
\* no argument and exits (SystemExit) on any other list.
ParserRejects(args) == args # <<>>

\* The finally clause missing: the environment restored on return only.
EnvironAfter_NoFinally(old_env, current, outcome) ==
    IF outcome = "returned" THEN old_env ELSE current

\* os.environ once the finally clause has cleared and updated it.
EnvironAfter(old_env, current, outcome) == old_env

PythonInit ==
    /\ environ \in ParentEnvs
    /\ pyframes = <<>>
    /\ pyResult = [op |-> "none"]

FixedPython ==
    /\ environ = <<>>
    /\ pyframes = <<>>
    /\ pyResult = [op |-> "none"]

\* PythonWorkflow.run up to the call of self.func: os.environ is saved,
\* cleared and set to self.env; arguments given to a function that takes
\* none are rejected inside the try block, so the finally clause runs.
PythonWorkflowRun(self_env, takes_args, args) ==
    LET old_env == environ
        during == self_env
    IN  IF ~takes_args /\ ParserRejects(args)
        THEN /\ environ' = EnvironAfter(old_env, during, "SystemExit")
             /\ pyResult' = [op |-> "run", outcome |-> "SystemExit", self_env |-> self_env,
                             before |-> environ, during |-> during]
             /\ UNCHANGED pyframes
        ELSE /\ environ' = during
             /\ pyframes' = <<[env |-> self_env, old_env |-> old_env]>> \o pyframes
             /\ pyResult' = [op |-> "run", outcome |-> "running", self_env |-> self_env,
                             before |-> environ, during |-> during]

\* self.func returns or raises: the finally clause.
PythonWorkflowExit(outcome) ==
    /\ environ' = EnvironAfter(Head(pyframes).old_env, environ, outcome)
    /\ pyframes' = Tail(pyframes)
    /\ pyResult' = [op |-> "exit", outcome |-> outcome, self_env |-> Head(pyframes).env,
                    before |-> Head(pyframes).old_env, during |-> environ]

\* A workflow is run from the command line, or by the function of the
\* innermost running workflow.
RunPython ==
    /\ Len(pyframes) < MaxNesting
    /\ \E self_env \in ParentEnvs, takes_args \in BOOLEAN, args \in ArgLists :
          PythonWorkflowRun(self_env, takes_args, args)
    /\ UNCHANGED notPython

\* The running function assigns os.environ["X"] = "2".
SetEnviron ==
    /\ pyframes # <<>>
    /\ environ' = [n \in DOMAIN environ \cup {X} |-> IF n = X THEN <<"2">> ELSE environ[n]]
    /\ pyResult' = [op |-> "setenv"]
    /\ UNCHANGED pyframes
    /\ UNCHANGED notPython

ExitPython ==
    /\ pyframes # <<>>
    /\ \E outcome \in {"returned", "raised"} : PythonWorkflowExit(outcome)
    /\ UNCHANGED notPython

(***************************************************************************)
(* Workflow.start_and_wait_for_tcp.                                        *)
(*                                                                         *)
(* The method is followed call by call: start_services for one service,    *)
(* then wait_for_tcp for each port of its stored definition.               *)
(***************************************************************************)

\* Bound on the list passed to start_and_wait_for_tcp.
MaxStarted == 2

StartLists == UNION {[1..n -> ServiceNames] : n \in 0..MaxStarted}

\* The compositions the method runs on: constructed from services that list
\* container ports, with and without preserve_ports.
StartLoaded ==
    [Services -> {c \in LoadedConfigs :
                     /\ "image" \in DOMAIN c
                     /\ "ports" \in DOMAIN c
                     /\ DisallowedPort(c.ports) = 0}]

StartScopeInit ==
    /\ \E services \in StartLoaded, preserve_ports \in BOOLEAN :
          /\ compose = Construct(services, preserve_ports, None).compose
          /\ file = Construct(services, preserve_ports, None).file
    /\ scopes = <<>>
    /\ scopeResult = [op |-> "none", outcome |-> "none", pre |-> compose,
                      inner |-> compose]

StartupInit ==
    startup = [status |-> "idle", services |-> <<>>, i |-> 0, j |-> 0,
               events |-> <<>>, error |-> NoError]

\* A service's stored definition read without its ports.
ServicePorts_None(c, service) == <<>>

\* self.composition.compose["services"][service].get("ports", [])
ServicePorts(c, service) ==
    IF "ports" \in DOMAIN c.services[service] THEN c.services[service].ports ELSE <<>>

\* _check_tcp: bash opens /dev/tcp/<host>/<port>; that succeeds when the
\* host listens there, and never for a port that is not a number.
CheckTcp(port, up) == up /\ \A k \in 1..Len(port) : IsDigit(port[k])

\* The call enters the loop over `services`.
StartAndWaitForTcpCall(services) ==
    /\ startup.status = "idle"
    /\ startup' = [startup EXCEPT !.status = "running", !.services = services,
                                  !.i = 1, !.j = 0]

\* self.start_services(services=[service]), then the lookup of the ports.
StartOne(exit) ==
    /\ startup.status = "running"
    /\ startup.i <= Len(startup.services)
    /\ startup.j = 0
    /\ LET service == startup.services[startup.i]
           err == StartServicesCatch(RunCompose(exit), service)
           started == [startup EXCEPT !.events =
                          Append(@, [op |-> "start", index |-> startup.i, port |-> 0,
                                     ok |-> err = NoError])]
       IN  startup' =
              IF err # NoError
              THEN [started EXCEPT !.status = "raised", !.error = err]
              ELSE IF service \notin DOMAIN compose.services
              THEN [started EXCEPT !.status = "raised", !.error = KeyError(service)]
              ELSE IF ServicePorts(compose, service) = <<>>
              THEN [started EXCEPT !.i = @ + 1]
              ELSE [started EXCEPT !.j = 1]

\* self.wait_for_tcp(host=service, port=port) for the next port; ups[k] is
\* whether the service listens in iteration k of the wait.
WaitOne(ups) ==
    /\ startup.status = "running"
    /\ startup.i <= Len(startup.services)
    /\ startup.j >= 1
    /\ LET service == startup.services[startup.i]
           ports == ServicePorts(compose, service)
           probes == [k \in 1..Len(ups) |->
                         [h \in {service} |-> CheckTcp(ports[startup.j], ups[k])]]
           err == WaitForTcpRun(service, <<>>, probes, 1)
           waited == [startup EXCEPT !.events =
                         Append(@, [op |-> "wait", index |-> startup.i,
                                    port |-> startup.j, ok |-> err = NoError])]
       IN  startup' =
              IF err # NoError
              THEN [waited EXCEPT !.status = "raised", !.error = err]
              ELSE IF startup.j = Len(ports)
              THEN [waited EXCEPT !.i = @ + 1, !.j = 0]
              ELSE [waited EXCEPT !.j = @ + 1]

\* The loop over `services` is exhausted.
StartAndWaitForTcpReturn ==
    /\ startup.status = "running"
    /\ startup.i > Len(startup.services)
    /\ startup' = [startup EXCEPT !.status = "returned"]

StartAndWaitForTcp ==
    /\ \E services \in StartLists : StartAndWaitForTcpCall(services)
    /\ UNCHANGED notStart
    /\ UNCHANGED scopeVars

StartService ==
    /\ \E exit \in ExitCodes : StartOne(exit)
    /\ UNCHANGED notStart
    /\ UNCHANGED scopeVars

WaitForService ==
    /\ \E ups \in UNION {[1..n -> BOOLEAN] : n \in 0..MaxIterations} : WaitOne(ups)
    /\ UNCHANGED notStart
    /\ UNCHANGED scopeVars

StartReturn ==
    /\ StartAndWaitForTcpReturn
    /\ UNCHANGED notStart
    /\ UNCHANGED scopeVars

(***************************************************************************)
(* The service presets: SqlServer.                                         *)
(*                                                                         *)
(* The default of a parameter is one object, created when the function is  *)
(* defined; a list is held by reference.  A constructed service holds      *)
(* either that object or the list its caller passed.                       *)
(***************************************************************************)

\* Bound on the number of SqlServer objects constructed.
MaxConstructions == 3

ACCEPT_EULA ==
    <<"A", "C", "C", "E", "P", "T", "_", "E", "U", "L", "A", "=", "Y">>

MSSQL_PID ==
    <<"M", "S", "S", "Q", "L", "_", "P", "I", "D", "=", "D", "e", "v", "e", "l", "o", "p", "e", "r">>

MSSQL_AGENT_ENABLED ==
    <<"M", "S", "S", "Q", "L", "_", "A", "G", "E", "N", "T", "_", "E", "N", "A", "B", "L", "E", "D", "=", "T", "r", "u", "e">>

SA_PASSWORD ==
    <<"S", "A", "_", "P", "A", "S", "S", "W", "O", "R", "D", "=">>

\* The list the `environment` parameter of SqlServer.__init__ defaults to,
\* as written in the signature.
DefaultEnvironment == <<ACCEPT_EULA, MSSQL_PID, MSSQL_AGENT_ENABLED>>

\* Passwords, and the lists a caller passes as `environment`; None stands
\* for the argument left out.
Passwords == {<<"p", "1">>, <<"p", "2">>}

ExplicitEnvironments == {<<>>, <<ACCEPT_EULA>>}

PresetsInit ==
    /\ sqlDefault = DefaultEnvironment
    /\ sqlServers = <<>>

FixedPresets == PresetsInit

\* SqlServer.__init__ appending to a copy of the list it was given.
SqlServerInit_Copy(sa_password, environment) ==
    /\ sqlServers' = Append(sqlServers,
          [sa_password |-> sa_password, default |-> FALSE,
           environment |-> Append(IF environment = None THEN sqlDefault ELSE environment,
                                  SA_PASSWORD \o sa_password)])
    /\ UNCHANGED sqlDefault

\* SqlServer.__init__: environment.append(f"SA_PASSWORD={sa_password}") on
\* the list object bound to `environment`, which config["environment"] then
\* refers to.
SqlServerInit(sa_password, environment) ==
    IF environment = None
    THEN /\ sqlDefault' = Append(sqlDefault, SA_PASSWORD \o sa_password)
         /\ sqlServers' = Append(sqlServers,
               [sa_password |-> sa_password, default |-> TRUE, environment |-> <<>>])
    ELSE /\ sqlServers' = Append(sqlServers,
               [sa_password |-> sa_password, default |-> FALSE,
                environment |-> Append(environment, SA_PASSWORD \o sa_password)])
         /\ UNCHANGED sqlDefault

\* service.config["environment"] of the k-th constructed service.
Environment(k) ==
    IF sqlServers[k].default THEN sqlDefault ELSE sqlServers[k].environment

SqlServer ==
    /\ Len(sqlServers) < MaxConstructions
    /\ \E sa_password \in Passwords :
          \/ SqlServerInit(sa_password, None)
          \/ \E environment \in ExplicitEnvironments :
                SqlServerInit(sa_password, environment)
    /\ UNCHANGED notPresets

(***************************************************************************)
(* zippy: source_capable_clusters (zippy/replica_capabilities.py).         *)
(*                                                                         *)
(* A capability is a record of its class and its name; Capabilities.get    *)
(* is the framework's lookup of the capabilities of one class.             *)
(***************************************************************************)

\* Bound on the number of capabilities held.
MaxCapabilities == 4

CapabilityValues ==
    {[class |-> "ReplicaExists", name |-> "r1"],
     [class |-> "ReplicaExists", name |-> "r2"],
     [class |-> "Capability", name |-> ""]}

CapabilityLists == UNION {[1..n -> CapabilityValues] : n \in 0..MaxCapabilities}

\* Capabilities.get(cls): the capabilities of class cls, in order.
RECURSIVE get(_, _)
get(capabilities, cls) ==
    IF capabilities = <<>> THEN <<>>
    ELSE (IF Head(capabilities).class = cls THEN <<Head(capabilities)>> ELSE <<>>)
         \o get(Tail(capabilities), cls)

\* source_capable_clusters without the check for replicas.
source_capable_clusters_Always(capabilities) == <<"storage", "quickstart">>

source_capable_clusters(capabilities) ==
    IF Len(get(capabilities, "ReplicaExists")) > 0
    THEN <<"storage">>
    ELSE <<"storage", "quickstart">>

ZippyInit ==
    /\ zippy \in [capabilities : CapabilityLists, called : {FALSE}, clusters : {<<>>}]

FixedZippy == zippy = [capabilities |-> <<>>, called |-> FALSE, clusters |-> <<>>]

SourceCapableClusters ==
    /\ ~zippy.called
    /\ zippy' = [zippy EXCEPT !.called = TRUE,
                              !.clusters = source_capable_clusters(zippy.capabilities)]
    /\ UNCHANGED notZippy

(***************************************************************************)
(* Specifications.                                                         *)
(***************************************************************************)

RegNext == RegisterStep \/ RegStep

ScopeNext == EnterScope \/ ExitScope \/ InvokeEngine

WfNext ==
    \/ Run
    \/ StartServices
    \/ RunService
    \/ Wait
    \/ Sleep
    \/ DropKafkaTopics
    \/ EnsureStaysUp
    \/ WaitForTcp
    \/ RunWorkflow
    \/ Return

PollNext ==
    \/ StartPoll
    \/ ProbeTcp
    \/ AttemptPg
    \/ AttemptMysql
    \/ TimeOut

SubstNext == Substitute \/ SubstituteAgain

ResolveNext == GetEnv \/ GetWorkflow

ConstructNext == Composition

PortsNext == FindHostPorts

PythonNext == RunPython \/ SetEnviron \/ ExitPython

StartNext == StartAndWaitForTcp \/ StartService \/ WaitForService \/ StartReturn

PresetsNext == SqlServer

ZippyNext == SourceCapableClusters

\* The initial state of a specification of one subsystem: the other
\* subsystems start, and stay, in one fixed state.
FixedScope ==
    /\ compose = ComposeOf([s \in Services |->
                    [image |-> <<"busybox">>, command |-> "sleep 1", ports |-> <<>>]])
    /\ file = WriteCompose(compose)
    /\ scopes = <<>>
    /\ scopeResult = [op |-> "none", outcome |-> "none", pre |-> compose,
                      inner |-> compose]

InitReg == FixedConstruct /\ RegInit /\ FixedScope /\ FixedPorts /\ WfInit /\ PollInit /\ FixedSubst /\ FixedResolve
    /\ FixedPython /\ StartupInit /\ FixedPresets /\ FixedZippy

InitScope == FixedConstruct /\ RegInit /\ ScopeInit /\ FixedPorts /\ WfInit /\ PollInit /\ FixedSubst /\ FixedResolve
    /\ FixedPython /\ StartupInit /\ FixedPresets /\ FixedZippy

InitSubst == FixedConstruct /\ RegInit /\ FixedScope /\ FixedPorts /\ WfInit /\ PollInit /\ SubstInit /\ FixedResolve
    /\ FixedPython /\ StartupInit /\ FixedPresets /\ FixedZippy

InitResolve == FixedConstruct /\ RegInit /\ FixedScope /\ FixedPorts /\ WfInit /\ PollInit /\ FixedSubst /\ ResolveInit
    /\ FixedPython /\ StartupInit /\ FixedPresets /\ FixedZippy

InitWorkflow == FixedConstruct /\ RegInit /\ FixedScope /\ FixedPorts /\ WfInit /\ PollInit /\ FixedSubst /\ FixedResolve
    /\ FixedPython /\ StartupInit /\ FixedPresets /\ FixedZippy

InitPoll == FixedConstruct /\ RegInit /\ FixedScope /\ FixedPorts /\ WfInit /\ PollInit /\ FixedSubst /\ FixedResolve
    /\ FixedPython /\ StartupInit /\ FixedPresets /\ FixedZippy

InitConstruct == ConstructInit /\ RegInit /\ FixedScope /\ FixedPorts /\ WfInit /\ PollInit /\ FixedSubst /\ FixedResolve
    /\ FixedPython /\ StartupInit /\ FixedPresets /\ FixedZippy

InitPorts == FixedConstruct /\ RegInit /\ FixedScope /\ FixedPorts /\ WfInit /\ PollInit /\ FixedSubst /\ FixedResolve
    /\ FixedPython /\ StartupInit /\ FixedPresets /\ FixedZippy

InitPython == FixedConstruct /\ RegInit /\ FixedScope /\ FixedPorts /\ WfInit /\ PollInit /\ FixedSubst /\ FixedResolve
    /\ PythonInit /\ StartupInit /\ FixedPresets /\ FixedZippy

InitStart == FixedConstruct /\ RegInit /\ StartScopeInit /\ FixedPorts /\ WfInit /\ PollInit /\ FixedSubst /\ FixedResolve
    /\ FixedPython /\ StartupInit /\ FixedPresets /\ FixedZippy

InitPresets == FixedConstruct /\ RegInit /\ FixedScope /\ FixedPorts /\ WfInit /\ PollInit /\ FixedSubst /\ FixedResolve
    /\ FixedPython /\ StartupInit /\ PresetsInit /\ FixedZippy

InitZippy == FixedConstruct /\ RegInit /\ FixedScope /\ FixedPorts /\ WfInit /\ PollInit /\ FixedSubst /\ FixedResolve
    /\ FixedPython /\ StartupInit /\ FixedPresets /\ ZippyInit

SpecReg == InitReg /\ [][RegNext]_vars

SpecScope == InitScope /\ [][ScopeNext]_vars

SpecWorkflow == InitWorkflow /\ [][WfNext]_vars

\* A wait step whose `ps -q` fails: one of the outcomes of Wait.
WaitPsFails ==
    /\ \E runvRaises \in BOOLEAN : WaitStep(1, runvRaises)
    /\ UNCHANGED notWf

\* The step the thread executing Workflow.run takes next: the current step
\* of the innermost workflow, or the return from it.  (WaitPsFails is a
\* case of Wait; listed first, it settles whether a wait step can be taken
\* without the output of `docker wait` being parsed.)
WfStep ==
    \/ WaitPsFails
    \/ StartServices
    \/ RunService
    \/ Wait
    \/ Sleep
    \/ DropKafkaTopics
    \/ EnsureStaysUp
    \/ WaitForTcp
    \/ RunWorkflow
    \/ Return

\* Workflow.run is executed by one thread that goes on until the run
\* returns or raises, and every primitive step ends: a step that can be
\* taken is taken.
WfFairness == WF_vars(WfStep)

SpecWorkflowLive == InitWorkflow /\ [][WfNext]_vars /\ WfFairness

SpecPoll == InitPoll /\ [][PollNext]_vars

SpecSubst == InitSubst /\ [][SubstNext]_vars

SpecResolve == InitResolve /\ [][ResolveNext]_vars

SpecConstruct == InitConstruct /\ [][ConstructNext]_vars

SpecPorts == InitPorts /\ [][PortsNext]_vars

SpecPython == InitPython /\ [][PythonNext]_vars

SpecStart == InitStart /\ [][StartNext]_vars

SpecPresets == InitPresets /\ [][PresetsNext]_vars

SpecZippy == InitZippy /\ [][ZippyNext]_vars

(***************************************************************************)
(* Properties.                                                             *)
(***************************************************************************)

\* C1: when a with_services scope exits, by return or by an error, the
\* topology equals its value just before the scope was entered and the
\* serialized file is the dump of that restored topology.
C1_ScopeRestores ==
    scopeResult.op = "exit" =>
        /\ compose = scopeResult.pre
        /\ file = YamlDump(scopeResult.pre)

\* A scope that replaced a definition has been left by an error.
C1_Witness ==
    /\ scopeResult.op = "exit"
    /\ scopeResult.outcome = "raised"
    /\ scopeResult.inner.services["echo"] # scopeResult.pre.services["echo"]

\* C2: the steps a workflow has executed are a prefix of its step list, in
\* list order; a step that raised is the last one executed, the run has
\* raised with that step's error, and the next step starts only when the
\* current one has ended.
C2_StepsRunInOrder ==
    /\ \A f \in 1..Len(frames) :
          LET fr == frames[f]
          IN  /\ Len(fr.executed) <= Len(fr.steps)
              /\ \A k \in 1..Len(fr.executed) :
                    /\ fr.executed[k].index = k
                    /\ fr.executed[k].raised =>
                          k = Len(fr.executed) /\ wfStatus = "raised"
              /\ wfStatus = "running" =>
                    fr.pc = (IF f = 1 THEN Len(fr.executed) + 1 ELSE Len(fr.executed))
    /\ wfStatus = "raised" =>
          /\ wfError # NoError
          /\ Top.executed # <<>> /\ Top.executed[Len(Top.executed)].raised
          /\ Len(frames) = 1 => wfError = lastStep.err

\* The first of two steps raised and the second was never executed.
C2_Witness ==
    /\ wfStatus = "raised"
    /\ Len(frames) = 1
    /\ Len(Top.steps) = 2
    /\ Len(Top.executed) = 1

\* C3: Steps.register(name) for a name that is in the registry raises and
\* leaves the registry, with the class registered under the name, as it was.
C3_DoubleRegistrationFails ==
    [][\A n \in StepNames :
          (regResult'.op = "register" /\ regResult'.name = n /\ n \in DOMAIN _steps
           /\ regResult' # regResult)
          => /\ regResult'.outcome = "ValueError"
             /\ _steps' = _steps
             /\ workflowAttrs' = workflowAttrs
             /\ registrars' = registrars]_vars

\* A registration was refused for a name that is registered.
C3_Witness ==
    /\ regResult.op = "register"
    /\ regResult.outcome = "ValueError"
    /\ regResult.name \in DOMAIN _steps

\* The convenience name the registry is to give each step name.
ConvenienceName(n) ==
    IF n = N_run THEN N_run_service
    ELSE IF n = N_run_dash_service THEN N_run_service
    ELSE IF n = N_wait_dash_for_dash_tcp THEN N_wait_for_tcp
    ELSE N_with_services

\* C4: applying a registration binds the step class to the Workflow
\* attribute named after the step (dashes as underscores, run_service for
\* `run`) when Workflow has no such attribute, and otherwise fails with a
\* UIError and leaves the attributes of Workflow as they were.
C4_ConvenienceMethod ==
    [][\A n \in StepNames :
          (regResult'.op = "reg" /\ regResult'.name = n
           /\ registrars'[n] = registrars[n] - 1)
          => IF ConvenienceName(n) \in DOMAIN workflowAttrs
             THEN /\ regResult'.outcome = "UIError"
                  /\ workflowAttrs' = workflowAttrs
             ELSE /\ regResult'.outcome = "ok"
                  /\ DOMAIN workflowAttrs' = DOMAIN workflowAttrs \cup {ConvenienceName(n)}
                  /\ workflowAttrs'[ConvenienceName(n)] = regResult'.cls
                  /\ \A a \in DOMAIN workflowAttrs : workflowAttrs'[a] = workflowAttrs[a]]_vars

\* `run-service` was refused because `run` already holds run_service.
C4_Witness ==
    /\ regResult.op = "reg"
    /\ regResult.name = N_run_dash_service
    /\ regResult.outcome = "UIError"
    /\ N_run \in DOMAIN _steps
    /\ N_run_service \in DOMAIN workflowAttrs
    /\ workflowAttrs[N_run_service] = _steps[N_run]
    /\ N_wait_for_tcp \in DOMAIN workflowAttrs

\* The listed dependencies whose probe fails in an attempt.
DownDeps(a) == {i \in 1..Len(poll.dependencies) : poll.dependencies[i].host \in a.down}

\* C5: a wait-for-tcp iteration in which the primary target and a listed
\* dependency are unreachable is the last iteration: the step has raised
\* "Dependency is down host:port" for the first such dependency.
C5_DependencyShortCircuit ==
    poll.kind = "tcp" =>
        \A k \in 1..Len(attempts) :
            (~attempts[k].ok /\ DownDeps(attempts[k]) # {})
            => /\ k = Len(attempts)
               /\ poll.status = "raised"
               /\ poll.raised.msg = MsgDependencyDown
               /\ \E i \in DownDeps(attempts[k]) :
                     /\ \A j \in DownDeps(attempts[k]) : i <= j
                     /\ poll.raised.host = poll.dependencies[i].host
                     /\ poll.raised.port = poll.dependencies[i].port

\* The wait failed in its second iteration, on a dependency, before the
\* timeout had elapsed.
C5_Witness ==
    /\ poll.kind = "tcp"
    /\ poll.status = "raised"
    /\ poll.raised.msg = MsgDependencyDown
    /\ Len(attempts) = 2
    /\ DownDeps(attempts[1]) = {}
    /\ TimeoutLoopContinues(poll.elapsed, poll.timeout_secs)

\* C6: the wait step raises a UIError, with a message of its own, when
\* `ps -q` lists no container, when it lists two or more, and when the one
\* container exits with a code other than expected_return_code.
C6_WaitErrors ==
    /\ Cardinality({MsgNoContainers, MsgSingleContainer, MsgExitCode}) = 3
    /\ (lastStep.step = "wait" /\ lastStep.exit = 0) =>
          /\ lastStep.nContainers = 0 => lastStep.err = UIError(MsgNoContainers)
          /\ lastStep.nContainers >= 2 => lastStep.err = UIError(MsgSingleContainer)
          /\ (lastStep.nContainers = 1 /\ lastStep.code # lastStep.expected)
                => lastStep.err = UIError(MsgExitCode)

E2E == <<StepInst("start-services", "echo", -1, None), StepInst("wait", "echo", 0, None)>>

\* Both steps of the end-to-end workflow have run against an engine that
\* obeyed: `up` succeeded, `ps` succeeded and lists the one container.
E2ERan ==
    /\ Len(frames) = 1
    /\ Top.steps = E2E
    /\ Len(Top.executed) = 2
    /\ ~Top.executed[1].raised
    /\ lastStep.step = "wait"
    /\ lastStep.exit = 0
    /\ Len(containers["echo"]) = 1

\* C7: the workflow [start-services(echo), wait(echo, 0)] ends without an
\* error when the one container of echo exits with 0 and raises a UIError
\* when it exits with 1.
C7_EndToEnd ==
    E2ERan =>
        /\ containers["echo"][1] = 0 =>
              wfStatus \in {"running", "done"} /\ wfError = NoError
        /\ containers["echo"][1] = 1 =>
              wfStatus = "raised" /\ wfError.kind = "UIError"

\* The end-to-end workflow has completed on a container that exited 0.
C7_Witness ==
    /\ E2ERan
    /\ wfStatus = "done"
    /\ containers["echo"] = <<0>>

LastAttempt == attempts[Len(attempts)]

\* What C9 says of every wait, apart from what follows a failed attempt:
\* the wait returns exactly at the first attempt that meets the success
\* predicate, and never returns without one.
C9_ReturnsAtFirstSuccess ==
    /\ \A k \in 1..(Len(attempts) - 1) : ~attempts[k].ok
    /\ poll.status = "success" <=> (attempts # <<>> /\ LastAttempt.ok)
    /\ poll.status = "raised" => \A k \in 1..Len(attempts) : ~attempts[k].ok
    /\ (poll.status = "raised" /\ poll.raised.msg # MsgDependencyDown)
          => ~TimeoutLoopContinues(poll.elapsed, poll.timeout_secs)

\* C9 as claimed: in each of the three waits a failed attempt is swallowed,
\* the loop going on while iterations remain.
C9_EveryFailureRetried ==
    /\ C9_ReturnsAtFirstSuccess
    /\ (/\ attempts # <<>>
        /\ ~LastAttempt.ok
        /\ TimeoutLoopContinues(poll.elapsed, poll.timeout_secs))
          => poll.status = "polling"

\* C9 as amended: the same, except that a wait-for-tcp iteration whose
\* primary probe and one of whose dependency probes failed raises at once.
C9_FailureRetriedUnlessDependencyDown ==
    /\ C9_ReturnsAtFirstSuccess
    /\ (/\ attempts # <<>>
        /\ ~LastAttempt.ok
        /\ TimeoutLoopContinues(poll.elapsed, poll.timeout_secs))
          => IF poll.kind = "tcp" /\ DownDeps(LastAttempt) # {}
             THEN poll.status = "raised" /\ poll.raised.msg = MsgDependencyDown
             ELSE poll.status = "polling"

\* wait_for_pg returned at its third attempt, after two failed ones.
C9_Witness ==
    /\ poll.kind = "pg"
    /\ poll.status = "success"
    /\ Len(attempts) = 3
    /\ attempts[1].cause = "connect_error"
    /\ attempts[2].cause = "mismatch"

\* C10: the error raised when wait_for_pg or wait_for_mysql times out
\* carries the failure cause of the last unsuccessful attempt.
C10_TimeoutCarriesLastCause ==
    (/\ poll.kind \in {"pg", "mysql"}
     /\ poll.status = "raised"
     /\ attempts # <<>>)
        => poll.raised.cause = LastAttempt.cause

(***************************************************************************)
(* C11: an attempt of wait_for_pg is a success exactly when the connection *)
(* and the query both succeed and either expected is "any" (a statement    *)
(* without a row set included) or the fetched rows equal the expected rows;*)
(* an attempt whose rows differ from an explicit expected value is not a   *)
(* success and leaves the wait in its loop.                                *)
(***************************************************************************)
PgAttemptStep ==
    /\ poll.kind = "pg"
    /\ Len(attempts') = Len(attempts) + 1

PgSuccess(a, expected) ==
    /\ a.tag \notin {"connect_error", "query_error"}
    /\ \/ expected.any
       \/ a.tag = "rows" /\ a.rows = expected.rows

C11_PgSuccessExactly ==
    [][PgAttemptStep =>
        LET a == attempts'[Len(attempts')]
        IN  /\ (poll'.status = "success") <=> PgSuccess(a, poll.expected)
            /\ (a.tag = "rows" /\ ~poll.expected.any /\ a.rows # poll.expected.rows)
                   => poll'.status = "polling"]_vars

\* A mismatch was followed by an attempt that fetched the expected rows.
C11_Witness ==
    /\ poll.kind = "pg"
    /\ ~poll.expected.any
    /\ poll.status = "success"
    /\ Len(attempts) >= 2
    /\ attempts[1].tag = "rows" /\ attempts[1].rows # poll.expected.rows
    /\ LastAttempt.rows = poll.expected.rows

(***************************************************************************)
(* Interpolation claims.                                                   *)
(***************************************************************************)
Returned(v) == [raised |-> FALSE, val |-> v]

\* The argument of the call that is about to be made.
CallArg == IF calls = 0 THEN val ELSE ret.val

\* A call has just been made.
CallStep == calls' = calls + 1

\* "${" occurs in the string.
HasSyntax(s) == \E i \in 1..(Len(s) - 1) : s[i] = "$" /\ s[i + 1] = "{"

RECURSIVE ValueHasSyntax(_)
ValueHasSyntax(v) ==
    IF v.ty = "str" THEN HasSyntax(v.s)
    ELSE \E i \in DOMAIN v.kids : ValueHasSyntax(v.kids[i].val)

(***************************************************************************)
(* C12: on a value (string, mapping, sequence, nested) without variable    *)
(* syntax _substitute_env_vars returns a value equal to its argument, for  *)
(* every environment; a second application returns what the first did.     *)
(***************************************************************************)
C12_NoSyntaxIsNoOp ==
    [][(CallStep /\ ~ValueHasSyntax(CallArg)) =>
          /\ ret' = Returned(CallArg)
          /\ calls > 0 => ret' = ret]_vars

\* A nested value without syntax went through two calls.
C12_Witness ==
    /\ calls = 2
    /\ IsContainer(val)
    /\ \E i \in DOMAIN val.kids : IsContainer(val.kids[i].val) /\ val.kids[i].val.kids # <<>>
    /\ ~ValueHasSyntax(val)
    /\ ret = Returned(val)

(***************************************************************************)
(* C13: the string "${VAR:-default}" resolves to default when VAR is       *)
(* absent and to the value of VAR when it is present; "${VAR}" with VAR    *)
(* present resolves to the value of VAR.                                   *)
(***************************************************************************)
C13_DefaultSubstitution ==
    (calls = 1 /\ val.ty = "str") =>
        \A v \in Names :
            /\ \A d \in DefaultTexts :
                  val.s = RefDefault(v, d) =>
                      ret = Returned(StrVal(IF v \in DOMAIN env THEN env[v] ELSE d))
            /\ (val.s = Ref(v) /\ v \in DOMAIN env) => ret = Returned(StrVal(env[v]))

(***************************************************************************)
(* C14: the string "${VAR:+alt}" resolves to the empty string when VAR is  *)
(* absent and to alt when VAR is present, whatever its value, the empty    *)
(* string included; the default pass leaves the reference untouched.       *)
(***************************************************************************)
C14_AlternateSubstitution ==
    (calls = 1 /\ val.ty = "str") =>
        \A v \in Names :
            val.s = RefAlt(v, Lit) =>
                /\ ret = Returned(StrVal(IF v \in DOMAIN env THEN Lit ELSE <<>>))
                /\ PatternSub("env", env, val.s, 1) = Text(val.s)

\* "${X:+a}" was resolved with X present and empty.
C14_Witness ==
    /\ calls = 1
    /\ val = StrVal(RefAlt(X, Lit))
    /\ X \in DOMAIN env /\ env[X] = <<>>
    /\ ret = Returned(StrVal(Lit))

(***************************************************************************)
(* C15: a reference "${VAR}" with VAR absent and no default stays in the   *)
(* output as written, the call does not raise, and the text before and     *)
(* after the reference is resolved as it would be on its own.              *)
(***************************************************************************)
PiecesOrNone == Pieces \cup {<<>>}

C15_UnknownLeftInPlace ==
    (calls = 1 /\ val.ty = "str") =>
        \A v \in Names \ DOMAIN env, before \in PiecesOrNone, after \in PiecesOrNone :
            val.s = before \o Ref(v) \o after =>
                ret = Returned(StrVal(SubstituteString(before, env).s \o Ref(v)
                                      \o SubstituteString(after, env).s))

(***************************************************************************)
(* C16: when "${VAR:-default}" is resolved with VAR absent, the default    *)
(* text appears in the result as written: nothing in it, alone or with the *)
(* text that follows, is substituted in the same call.                     *)
(***************************************************************************)
IsPrefix(p, s) == Len(p) <= Len(s) /\ SubSeq(s, 1, Len(p)) = p

C16_DefaultNotResolvedAgain ==
    (calls = 1 /\ val.ty = "str") =>
        \A v \in Names \ DOMAIN env, d \in DefaultTexts, after \in PiecesOrNone :
            val.s = RefDefault(v, d) \o after =>
                ~ret.raised /\ IsPrefix(d, ret.val.s)

(***************************************************************************)
(* C17: interpolation preserves structure: the result of a mapping or a    *)
(* sequence has the same type, keys, length and order, each element is the *)
(* interpolation of the element at its place, other scalars are returned   *)
(* unchanged, and {"a": "${X}"} with X = "1" gives {"a": "1"}.             *)
(***************************************************************************)
C17_StructurePreserved ==
    [][CallStep =>
        LET arg == CallArg
            out == ret'.val
        IN  /\ ~ret'.raised
            /\ out.ty = arg.ty
            /\ IsContainer(arg) =>
                  /\ Len(out.kids) = Len(arg.kids)
                  /\ \A i \in DOMAIN arg.kids :
                        /\ out.kids[i].key = arg.kids[i].key
                        /\ out.kids[i].val = _substitute_env_vars(arg.kids[i].val, env).val
                        /\ out.kids[i].val.ty = arg.kids[i].val.ty
                        /\ arg.kids[i].val.ty = "str" =>
                              out.kids[i].val.s = SubstituteString(arg.kids[i].val.s, env).s
                        /\ arg.kids[i].val.ty = "int" => out.kids[i].val = arg.kids[i].val
            /\ arg.ty = "int" => out = arg
            /\ (arg = Keyed("dict", <<StrVal(Ref(X))>>) /\ X \in DOMAIN env /\ env[X] = <<"1">>)
                  => out = Keyed("dict", <<StrVal(<<"1">>)>>)]_vars

\* A sequence holding a mapping and a reference was resolved.
C17_Witness ==
    /\ calls = 1
    /\ X \in DOMAIN env /\ env[X] = <<"1">>
    /\ ret = Returned(Keyed("list", <<Keyed("dict", <<StrVal(<<"1">>), IntVal(7)>>),
                                      StrVal(<<"1">>)>>))

(***************************************************************************)
(* C18: get_env returns the parent environment overlaid with the           *)
(* workflow's own env: a parent variable the workflow does not define      *)
(* keeps its value, a variable the workflow defines has the workflow's     *)
(* value resolved against the parent, also when the parent defines it too. *)
(***************************************************************************)
DeclaredEnv(rec) == RawEnv(rec.found, rec.name)

DeclaredNames(rec) ==
    IF DeclaredEnv(rec).ty = "dict" THEN Keys(DeclaredEnv(rec)) ELSE {}

C18_ChildOverParent ==
    \A i \in DOMAIN resolved :
        LET rec == resolved[i]
        IN  rec.raised = None =>
                /\ DOMAIN rec.env = DOMAIN rec.parent_env \cup DeclaredNames(rec)
                /\ \A k \in DOMAIN rec.env :
                      rec.env[k] =
                          IF k \in DeclaredNames(rec)
                          THEN SubstituteString(PyStr(Get(DeclaredEnv(rec), k)),
                                                rec.parent_env).s
                          ELSE rec.parent_env[k]

\* X is defined by both and resolved from the parent's Y; Y comes from the
\* parent alone.
C18_Witness ==
    \E i \in DOMAIN resolved :
        LET rec == resolved[i]
        IN  /\ rec.op = "get_env"
            /\ DOMAIN rec.parent_env = {X, Y}
            /\ DeclaredNames(rec) = {X}
            /\ Get(DeclaredEnv(rec), X) = StrVal(RefDefault(Y, Lit))
            /\ rec.env = [k \in {X, Y} |-> <<"1">>]

(***************************************************************************)
(* C19: the env of every Workflow returned by get_workflow holds no        *)
(* variable syntax "${" in any value.                                      *)
(***************************************************************************)
C19_EnvFullyResolved ==
    \A i \in DOMAIN resolved :
        (resolved[i].op = "get_workflow" /\ resolved[i].raised = None) =>
            \A k \in DOMAIN resolved[i].env : ~HasSyntax(resolved[i].env[k])

(***************************************************************************)
(* C20: get_workflow is stateless between invocations: a second call, with *)
(* another parent environment, returns what a call with that environment   *)
(* on the declared workflows would return.                                 *)
(***************************************************************************)
Returned2(r) == [raised |-> r.raised, env |-> r.env, steps |-> r.steps]

C20_StatelessResolution ==
    \A i \in DOMAIN resolved :
        (i > 1 /\ resolved[i].op = "get_workflow" /\ resolved[1].op = "get_workflow") =>
            Returned2(resolved[i]) =
                Returned2(get_workflow(resolved[1].found, resolved[i].name,
                                       resolved[i].parent_env))

(***************************************************************************)
(* Topology claims.                                                        *)
(***************************************************************************)

\* The ports a loaded service lists, and whether one names a host port.
LoadedPorts(s) ==
    IF "ports" \in DOMAIN loaded.services[s] THEN loaded.services[s].ports ELSE <<>>

HostPortWritten ==
    \E s \in Services : \E i \in 1..Len(LoadedPorts(s)) :
        \E j \in 1..Len(LoadedPorts(s)[i]) : LoadedPorts(s)[i][j] = ":"

UnknownImage ==
    \E s \in Services :
        /\ "mzbuild" \in DOMAIN loaded.services[s]
        /\ loaded.services[s].mzbuild \notin RepoImages

PortError == UIError("programming error: disallowed host port in service {name!r}")

\* Every service of the constructed topology binds each port it was loaded
\* with to the same host port.
PortsBoundToSame ==
    \A s \in Services :
        constructed.result.compose.services[s].ports =
            [i \in 1..Len(LoadedPorts(s)) |-> HostPort(LoadedPorts(s)[i])]

(* C22, as stated: a port written host:container is rejected with a        *)
(* programming error when preserve_ports is off; with preserve_ports the    *)
(* construction rejects no port and each port p becomes p:p.                *)
C22_RejectsUnlessPreserved ==
    constructed.done =>
        /\ (~loaded.preserve_ports /\ HostPortWritten /\ ~UnknownImage)
               => constructed.result.error = PortError
        /\ loaded.preserve_ports =>
               /\ constructed.result.error # PortError
               /\ constructed.result.error = NoError => PortsBoundToSame

(* C22, amended: a port written host:container is rejected with a          *)
(* programming error whether or not preserve_ports is set; when no port    *)
(* names a host port the construction succeeds, and each port p becomes    *)
(* p:p with preserve_ports and stays p without.                            *)
C22_RejectsHostPorts ==
    constructed.done =>
        /\ HostPortWritten =>
               /\ constructed.result.error # NoError
               /\ ~UnknownImage => constructed.result.error = PortError
        /\ (~HostPortWritten /\ ~UnknownImage) =>
               /\ constructed.result.error = NoError
               /\ loaded.preserve_ports => PortsBoundToSame
               /\ ~loaded.preserve_ports =>
                      \A s \in Services :
                          constructed.result.compose.services[s].ports = LoadedPorts(s)

C22_Witness ==
    /\ constructed.done
    /\ loaded.preserve_ports
    /\ constructed.result.error = NoError
    /\ \E s \in Services : Len(LoadedPorts(s)) = MaxPorts

\* The services whose lines in a serialized topology hold a build reference.
BuildPlaceholders(f) ==
    {f[i][2] : i \in {j \in 1..Len(f) : f[j][1] = "services" /\ f[j][3] = "mzbuild"}}

(* C21: no serialized topology, written at construction, on entry to a     *)
(* with_services scope or on exit from it, holds a build reference         *)
(* (mzbuild) in a service.                                                 *)
C21_NoBuildPlaceholder == BuildPlaceholders(file) = {}

(* C23: when docker-compose is invoked through Composition.run, the file   *)
(* it reads is the serialization of the composition's topology in memory,  *)
(* after construction and after any sequence of with_services scopes,      *)
(* failed ones included.                                                   *)
C23_EngineReadsCurrentTopology ==
    scopeResult.op = "run" => scopeResult.read = YamlDump(compose)

(* C25: with_services raises a programming error (RuntimeError) when a     *)
(* listed service is not in the topology, and after any sequence of scopes *)
(* the service names of the topology are those fixed at construction.      *)
C25_NoServiceInjected ==
    /\ (scopeResult.op = "enter" /\ ~(scopeResult.listed \subseteq Services))
           => scopeResult.outcome = "RuntimeError"
    /\ DOMAIN compose.services = Services

C25_Witness ==
    /\ scopeResult.op = "enter"
    /\ scopeResult.outcome = "RuntimeError"
    /\ scopeResult.inner # scopeResult.pre
    /\ DOMAIN compose.services = Services

\* The host ports with an IPv4 binding in the metadata of the containers of
\* the service found.service.
IPv4HostPorts ==
    UNION {{OrEmpty(found.infos[c[1]].Ports[c[2]])[j].HostPort :
                j \in {k \in 1..Len(OrEmpty(found.infos[c[1]].Ports[c[2]])) :
                          OrEmpty(found.infos[c[1]].Ports[c[2]])[k].HostIp = IPv4Any}} :
           c \in {d \in (1..Len(found.infos)) \X {"80/tcp", "81/tcp"} :
                     found.infos[d[1]].Labels = Labels(found.service, ProjectName)}}

(* C24: find_host_ports returns a list without duplicates holding exactly  *)
(* the host ports that have an IPv4 binding in the metadata of the         *)
(* service's containers: a port bound on IPv4 and IPv6 appears once, a     *)
(* port bound on IPv6 only does not appear.                                *)
C24_IPv4PortsOnce ==
    (found.op = "find_host_ports" /\ found.result.error = NoError) =>
        LET ports == found.result.ports
        IN  /\ {ports[i] : i \in 1..Len(ports)} = IPv4HostPorts
            /\ \A i, j \in 1..Len(ports) : ports[i] = ports[j] => i = j

C24_Witness ==
    /\ found.op = "find_host_ports"
    /\ found.result.ports = <<"32768">>
    /\ \E i \in 1..Len(found.infos) :
          /\ found.infos[i].Ports["80/tcp"] =
                 Bindings(<<Binding(IPv4Any, "32768"), Binding(IPv6Any, "32768")>>)
          /\ found.infos[i].Ports["81/tcp"] =
                 Bindings(<<Binding(IPv6Any, "32769"), Binding(IPv4Any, "32768")>>)

(***************************************************************************)
(* Workflow and step claims.                                               *)
(***************************************************************************)

(* C26: PythonWorkflow.run restores os.environ on every exit path: after   *)
(* the call returns or raises, rejection of arguments included, os.environ *)
(* is what it was before the call; when the function starts, os.environ is *)
(* the env of the workflow; nested workflows restore in reverse order of   *)
(* entry, each to the environment it was entered from.                     *)
C26_EnvironRestored ==
    [][/\ pyResult'.op = "run" =>
            /\ pyResult'.before = environ
            /\ pyResult'.outcome = "SystemExit" => environ' = environ
            /\ pyResult'.outcome = "running" =>
                   /\ environ' = pyResult'.self_env
                   /\ Head(pyframes').old_env = environ
                   /\ Tail(pyframes') = pyframes
       /\ pyResult'.op = "exit" =>
            /\ environ' = Head(pyframes).old_env
            /\ pyframes' = Tail(pyframes)]_vars

C26_Witness ==
    /\ pyResult.op = "exit"
    /\ pyResult.outcome = "raised"
    /\ pyResult.during # pyResult.before
    /\ pyResult.during # pyResult.self_env
    /\ pyframes # <<>>
    /\ environ = Head(pyframes).env

(* C27: when `up` fails, the start-services step raises an operator error *)
(* (UIError) whose diagnostic lists the services it was asked to start.    *)
C27_StartFailureListsServices ==
    (lastStep.step = "start-services" /\ lastStep.exit # 0) =>
        lastStep.err = UIError(MsgDidntComeUp[lastStep.service])

\* The polls of the last ensure-stays-up step that did not find the
\* container up.
NotUp == {i \in 1..lastStep.seconds : lastStep.seen[i] # "up"}

(* C28: ensure-stays-up with seconds = N makes at most N polls; it         *)
(* completes without error exactly when every one of the N polls finds a   *)
(* container of the service, and it raises an operator error at the first  *)
(* poll at which the container is no longer up, making no further poll.    *)
C28_EnsureStaysUp ==
    lastStep.step = "ensure-stays-up" =>
        /\ lastStep.polls <= lastStep.seconds
        /\ lastStep.err = NoError <=>
               \A i \in 1..lastStep.seconds : lastStep.seen[i] \in {"up", "exited"}
        /\ NotUp # {} =>
               /\ lastStep.err.kind = "UIError"
               /\ lastStep.polls = Min(NotUp)

(* C29: a failing delete command never fails the workflow: when            *)
(* `kafka-topics --delete` exits non-zero, drop-kafka-topics logs the      *)
(* failure and returns, and the workflow goes on with its next step.       *)
C29_DropTopicsNeverFails ==
    [][(AtStep("drop-kafka-topics") /\ lastStep' # lastStep) =>
          /\ lastStep'.err = NoError
          /\ lastStep'.exit # 0 => lastStep'.logged
          /\ wfStatus' = "running"
          /\ wfError' = NoError
          /\ Head(frames').pc = Top.pc + 1
          /\ ~Head(frames').executed[Top.pc].raised]_vars

C29_Witness ==
    /\ lastStep.step = "drop-kafka-topics"
    /\ lastStep.exit # 0
    /\ lastStep.logged
    /\ wfStatus = "running"
    /\ AtStep("sleep")

\* The j-th frame of a call stack counted from the outermost workflow.
FromBottom(stack, j) == stack[Len(stack) - j + 1]

(* C30: the `workflow` step runs the named workflow of the composition     *)
(* with the caller's env as parent env, to completion before the caller's  *)
(* next step: the child sees every variable of the caller, except that the *)
(* child's own env (X: 2 in `child`, nothing in `probe`) wins, and the      *)
(* caller's env is never changed.                                          *)
C30_ChildSeesCallerEnv ==
    [][/\ \A j \in 1..Len(frames) :
             j <= Len(frames') => FromBottom(frames', j).env = FromBottom(frames, j).env
       /\ (frames # <<>> /\ Len(frames') = Len(frames) + 1) =>
             /\ CurrentStep.step = "workflow"
             /\ Head(frames').env =
                    (IF Head(frames').name = "child"
                     THEN [k \in DOMAIN Top.env \cup {X} |->
                              IF k = X THEN <<"2">> ELSE Top.env[k]]
                     ELSE Top.env)
             /\ Head(frames').pc = 1
       /\ \A j \in 1..(Len(frames) - 1) :
             Len(frames') >= Len(frames) =>
                 FromBottom(frames', j).pc = FromBottom(frames, j).pc
       /\ Len(frames') = Len(frames) - 1 =>
             /\ Top.pc > Len(Top.steps)
             /\ Head(frames').pc = frames[2].pc + 1]_vars

C30_Witness ==
    /\ Len(frames) = 2
    /\ wfStatus = "running"
    /\ Top.pc > 1
    /\ frames[2].env = [k \in {X, Y} |-> <<"1">>]
    /\ Top.env = [k \in {X, Y} |-> IF k = X THEN <<"2">> ELSE <<"1">>]

(***************************************************************************)
(* Scope claims.                                                           *)
(***************************************************************************)

\* C32: a call of with_services that fails because a listed service is not
\* in the topology leaves the topology in memory as it was before the call.
C32_FailedEntryChangesNothing ==
    (scopeResult.op = "enter" /\ scopeResult.outcome = "RuntimeError")
    => scopeResult.inner = scopeResult.pre

\* C33: scopes unwind in reverse order of entry: the exit of the innermost
\* open scope, by return or by an error, gives the topology (and the file)
\* the value it had when that scope was entered and leaves the scopes
\* around it open with the values they remembered; each open scope
\* remembers the topology of the moment it was entered.
C33_NestedScopesUnwind ==
    [][/\ \A k \in 1..Len(scopes) : scopes[k].old_compose = scopes[k].pre
       /\ (scopes # <<>> /\ Len(scopes') < Len(scopes))
          => /\ compose' = Head(scopes).pre
             /\ file' = YamlDump(Head(scopes).pre)
             /\ scopes' = Tail(scopes)
             /\ scopes' = <<>> => compose' = scopes[Len(scopes)].pre]_vars

\* An inner scope that replaced a definition was left by an error while the
\* outer scope, which had replaced one too, stays open.
C33_Witness ==
    /\ scopeResult.op = "exit"
    /\ scopeResult.outcome = "raised"
    /\ Len(scopes) = 1
    /\ scopeResult.inner # scopeResult.pre
    /\ compose # Head(scopes).pre
    /\ compose = scopeResult.pre

(***************************************************************************)
(* Registry claims.                                                        *)
(***************************************************************************)

\* An application of a registrar of name n was refused with a UIError.
RegRefused(n) ==
    /\ regResult'.op = "reg"
    /\ regResult'.name = n
    /\ regResult'.outcome = "UIError"
    /\ registrars'[n] = registrars[n] - 1

\* C34: a registration refused because its convenience name is taken leaves
\* the registry as it was, so a name that was not registered before is not
\* resolved by Steps.named after; and every name in the registry has its
\* convenience method on Workflow, bound to the class registered under it.
C34_RefusedRegistrationLeavesRegistry ==
    [][/\ \A n \in StepNames :
             RegRefused(n)
             => /\ _steps' = _steps
                /\ n \notin DOMAIN _steps => named(_steps', n).error # NoError
       /\ \A n \in DOMAIN _steps' :
             /\ HasAttr(workflowAttrs', FuncName(n))
             /\ workflowAttrs'[FuncName(n)] = named(_steps', n).cls]_vars

\* C35: the registry never overwrites an entry: whatever registrations and
\* applications of registrars follow, a registered name keeps the class
\* that was first registered under it.
C35_FirstRegistrationKept ==
    [][\A n \in DOMAIN _steps :
          /\ n \in DOMAIN _steps'
          /\ named(_steps', n) = named(_steps, n)]_vars

(***************************************************************************)
(* Workflow invocation claims.                                             *)
(***************************************************************************)

\* C36: a run ends with the operator error "unknown workflow" only when the
\* step that failed is a `workflow` step naming a workflow the composition
\* does not define; the error of a step of an existing child workflow
\* leaves the caller's run as that step raised it.
C36_UnknownWorkflowOnlyWhenUndefined ==
    wfStatus = "raised" =>
        /\ wfError = lastStep.err
        /\ wfError = UIError("unknown workflow")
           => /\ CurrentStep.step = "workflow"
              /\ CurrentStep.workflow \notin DOMAIN yaml_workflows

(***************************************************************************)
(* Polling claims.                                                         *)
(***************************************************************************)

\* C37: in every iteration of wait-for-tcp the primary probe decides first:
\* the iteration whose primary probe succeeds is the last one and the step
\* has returned, whatever dependencies are down in it, and no dependency
\* was reported before; "Dependency is down" is raised only in an iteration
\* whose primary probe failed, for the first dependency in list order that
\* is down in that iteration.
C37_PrimaryProbedFirst ==
    poll.kind = "tcp" =>
        /\ \A k \in 1..Len(attempts) :
              attempts[k].ok
              => /\ k = Len(attempts)
                 /\ poll.status = "success"
                 /\ poll.raised = NoPollError
                 /\ \A j \in 1..(k - 1) : ~attempts[j].ok /\ DownDeps(attempts[j]) = {}
        /\ (poll.status = "raised" /\ poll.raised.msg = MsgDependencyDown)
           => /\ attempts # <<>>
              /\ ~LastAttempt.ok
              /\ \E i \in DownDeps(LastAttempt) :
                    /\ poll.raised.host = poll.dependencies[i].host
                    /\ \A j \in 1..(i - 1) : j \notin DownDeps(LastAttempt)

\* The step returned in its second iteration although a listed dependency
\* was down in it.
C37_Witness ==
    /\ poll.kind = "tcp"
    /\ poll.status = "success"
    /\ Len(attempts) = 2
    /\ DownDeps(LastAttempt) # {}

StartEvents(n) == {q \in 1..n : startup.events[q].op = "start"}

\* C31: start_and_wait_for_tcp starts the listed services one at a time in
\* list order; a service is started only after the service before it was
\* started and the wait for each of its ports succeeded; a start or wait
\* that fails is the last call made, so later services stay unstarted.
C31_StartsSequentially ==
    LET ev == startup.events
    IN  /\ \A p \in 1..Len(ev) :
              ev[p].op = "start" =>
                 /\ ev[p].index = Cardinality(StartEvents(p))
                 /\ ev[p].index > 1 =>
                       LET before == startup.services[ev[p].index - 1]
                       IN  /\ before \in DOMAIN compose.services
                           /\ \A j \in 1..Len(compose.services[before].ports) :
                                 \E q \in 1..(p - 1) :
                                    ev[q] = [op |-> "wait", index |-> ev[p].index - 1,
                                             port |-> j, ok |-> TRUE]
        /\ \A p \in 1..Len(ev) :
              ~ev[p].ok => p = Len(ev) /\ startup.status = "raised"
        /\ startup.status = "returned" =>
              Cardinality(StartEvents(Len(ev))) = Len(startup.services)

\* Two services with a port each were started and waited for, in order.
C31_Witness ==
    /\ startup.status = "returned"
    /\ Len(startup.services) = 2
    /\ startup.services[1] # startup.services[2]
    /\ \A k \in 1..2 : Len(compose.services[startup.services[k]].ports) >= 1
    /\ Len(startup.events) >= 4

(***************************************************************************)
(* zippy claims.                                                           *)
(***************************************************************************)

\* C39: source_capable_clusters returns ["storage"] when the capabilities
\* hold at least one ReplicaExists, and ["storage", "quickstart"] when they
\* hold none.
C39_SourceCapableClusters ==
    zippy.called =>
       zippy.clusters =
          IF \E i \in 1..Len(zippy.capabilities) :
                zippy.capabilities[i].class = "ReplicaExists"
          THEN <<"storage">>
          ELSE <<"storage", "quickstart">>

\* The function was called with a replica among other capabilities.
C39_Witness ==
    /\ zippy.called
    /\ zippy.clusters = <<"storage">>
    /\ \E i, j \in 1..Len(zippy.capabilities) :
          /\ zippy.capabilities[i].class = "ReplicaExists"
          /\ zippy.capabilities[j].class = "Capability"

(***************************************************************************)
(* Preset claims.                                                          *)
(***************************************************************************)

PasswordEntries(environment) ==
    {i \in 1..Len(environment) : IsPrefix(SA_PASSWORD, environment[i])}

\* C40: every SqlServer constructed with the default environment has
\* exactly one SA_PASSWORD entry in its environment, the one of its own
\* sa_password.
C40_OnePasswordEntry ==
    \A k \in 1..Len(sqlServers) :
       sqlServers[k].default =>
          /\ Cardinality(PasswordEntries(Environment(k))) = 1
          /\ \A i \in PasswordEntries(Environment(k)) :
                Environment(k)[i] = SA_PASSWORD \o sqlServers[k].sa_password

====
